---- MODULE Spec2Model ----
\* Verification model of sandbox-runtime: the domain policy matcher of the
\* HTTP and SOCKS5 proxies, the SOCKS5 connection handler and the
\* SandboxManager lifecycle (initialize / wrap_command / execute / reset).
\*
\* Strings are modelled as sequences of one-character strings, so that
\* str::replace, the regex compiler and the regex matcher work on characters.
EXTENDS Integers, Sequences, FiniteSets, TLC

\* ---------------------------------------------------------------------------
\* Bounds
\* ---------------------------------------------------------------------------
\* longest generated domain pattern
MaxPatLen == 3
\* longest generated host name
MaxHostLen == 3
\* longest allow / deny list built from the named patterns
MaxListLen == 2

\* characters of generated patterns: a letter, the dot, the wildcard and one
\* character the regex syntax gives a meaning to
PatChars == {"a", ".", "*", "?"}
\* characters of generated hosts
HostChars == {"a", "b", "."}

RECURSIVE StringsUpTo(_, _)
StringsUpTo(chars, n) ==
    IF n = 0 THEN {<<>>}
    ELSE LET shorter == StringsUpTo(chars, n - 1)
         IN shorter \cup {Append(s, c) : s \in shorter, c \in chars}

ListsUpTo(pool, n) == UNION {[1..k -> pool] : k \in 0..n}

\* the error variants of SandboxError that the modelled operations return
ErrConfig == "Config"
ErrExecution == "Execution"
ErrIo == "Io"
ErrDocker == "Docker"
ErrCommandNotFound == "CommandNotFound"
ErrUnsupportedPlatform == "UnsupportedPlatform"

\* ---------------------------------------------------------------------------
\* The regex crate, as far as domain_to_regex can reach it
\* ---------------------------------------------------------------------------
\* one parsed regex item: an atom with its repetition
\*   kind: "lit" (the character ch), "any" (`.`), "start" (`^`), "end" (`$`)
\*   min : 0 when a `*` or `?` made the atom optional, else 1
\*   many: TRUE when a `*` lets the atom repeat
Item(kind, ch) == [kind |-> kind, ch |-> ch, min |-> 1, many |-> FALSE]

\* a repetition operator applied to the item before it (`a*`, `a?`, and the
\* stacked forms `a*?`, `a??`, `a?*`, which accept the same strings)
Repeat(item, op) ==
    [item EXCEPT !.min = 0, !.many = (@ \/ op = "*")]

\* Regex::new on the characters src. The parser covers the metacharacters
\* that the modelled patterns and domain_to_regex can produce: `\` escapes the
\* next character, `.` is any character but line feed, `^` and `$` are the
\* text anchors, `*` and `?` repeat the item before them, and a `(` that is
\* never closed (no modelled pattern has a `)`) is a syntax error.
RECURSIVE Regex_parse(_, _, _)
Regex_parse(src, i, items) ==
    IF i > Len(src) THEN [ok |-> TRUE, items |-> items]
    ELSE LET c == src[i] IN
         CASE c = "\\" ->
                IF i = Len(src) THEN [ok |-> FALSE, items |-> <<>>]
                ELSE Regex_parse(src, i + 2, Append(items, Item("lit", src[i + 1])))
           [] c = "." -> Regex_parse(src, i + 1, Append(items, Item("any", ".")))
           [] c = "^" -> Regex_parse(src, i + 1, Append(items, Item("start", "^")))
           [] c = "$" -> Regex_parse(src, i + 1, Append(items, Item("end", "$")))
           [] c \in {"*", "?"} ->
                IF items = <<>> THEN [ok |-> FALSE, items |-> <<>>]
                ELSE Regex_parse(src, i + 1,
                        [items EXCEPT ![Len(items)] = Repeat(@, c)])
           [] c \in {"(", ")"} -> [ok |-> FALSE, items |-> <<>>]
           [] OTHER -> Regex_parse(src, i + 1, Append(items, Item("lit", c)))

Regex_new(src) == Regex_parse(src, 1, <<>>)

\* does the item accept the character c (matching is case-sensitive)
AtomAccepts(item, c) ==
    \/ item.kind = "lit" /\ c = item.ch
    \/ item.kind = "any" /\ c # "\n"

\* can items[i..] match text starting after pos characters
RECURSIVE MatchFrom(_, _, _, _)
MatchFrom(items, text, i, pos) ==
    IF i > Len(items) THEN TRUE
    ELSE LET it == items[i]
             skip == it.min = 0 /\ MatchFrom(items, text, i + 1, pos)
         IN CASE it.kind = "start" ->
                   skip \/ (pos = 0 /\ MatchFrom(items, text, i + 1, pos))
              [] it.kind = "end" ->
                   skip \/ (pos = Len(text) /\ MatchFrom(items, text, i + 1, pos))
              [] OTHER ->
                   skip \/ ( /\ pos < Len(text)
                             /\ AtomAccepts(it, text[pos + 1])
                             /\ MatchFrom(items, text,
                                          IF it.many THEN i ELSE i + 1, pos + 1) )

\* Regex::is_match: an unanchored search, the match may start anywhere
is_match(re, text) ==
    \E start \in 0..Len(text) : MatchFrom(re, text, 1, start)

\* str::replace for a one-character pattern
RECURSIVE str_replace(_, _, _)
str_replace(s, from, to) ==
    IF s = <<>> THEN <<>>
    ELSE (IF Head(s) = from THEN to ELSE <<Head(s)>>)
         \o str_replace(Tail(s), from, to)

\* ---------------------------------------------------------------------------
\* Domain policy matcher of the HTTP proxy (src/proxy/http_proxy.rs)
\* ---------------------------------------------------------------------------
\* mutant: the HTTP proxy compiles its patterns without the end anchor
Http_domain_to_regex_NoEndAnchor(pattern) ==
    LET escaped == str_replace(pattern, ".", <<"\\", ".">>)
        starred == str_replace(escaped, "*", <<".", "*">>)
        re == Regex_new(<<"^">> \o starred)
    IN IF re.ok THEN re ELSE [ok |-> FALSE, items |-> <<>>, err |-> ErrConfig]

\* pattern.replace(".", r"\.").replace("*", ".*"), then Regex::new("^...$");
\* a pattern the regex crate rejects becomes a Config error
Http_domain_to_regex(pattern) ==
    LET escaped == str_replace(pattern, ".", <<"\\", ".">>)
        starred == str_replace(escaped, "*", <<".", "*">>)
        re == Regex_new(<<"^">> \o starred \o <<"$">>)
    IN IF re.ok THEN re ELSE [ok |-> FALSE, items |-> <<>>, err |-> ErrConfig]

\* mutant: the allow list is consulted before the deny list
Http_is_domain_allowed_AllowFirst(domain, allowed, denied) ==
    IF \E i \in 1..Len(allowed) : is_match(allowed[i], domain) THEN TRUE
    ELSE IF \E i \in 1..Len(denied) : is_match(denied[i], domain) THEN FALSE
    ELSE allowed = <<>>

Http_is_domain_allowed(domain, allowed, denied) ==
    IF \E i \in 1..Len(denied) : is_match(denied[i], domain) THEN FALSE
    ELSE IF allowed = <<>> THEN TRUE
    ELSE \E i \in 1..Len(allowed) : is_match(allowed[i], domain)

\* collect::<Result<Vec<_>>>: the compiled list, or the first error
CollectResults(res) ==
    IF \E i \in 1..Len(res) : ~res[i].ok
    THEN [ok |-> FALSE, list |-> <<>>]
    ELSE [ok |-> TRUE, list |-> [i \in 1..Len(res) |-> res[i].items]]

\* HttpProxy::new: both lists compiled, port 0 until start
HttpProxy_new(allowed_domains, denied_domains) ==
    LET a == CollectResults([i \in 1..Len(allowed_domains) |-> Http_domain_to_regex(allowed_domains[i])])
        d == CollectResults([i \in 1..Len(denied_domains) |-> Http_domain_to_regex(denied_domains[i])])
    IN IF ~a.ok \/ ~d.ok THEN [ok |-> FALSE, err |-> ErrConfig]
       ELSE [ok |-> TRUE, allowed_domains |-> a.list,
             denied_domains |-> d.list, port |-> 0]

\* ---------------------------------------------------------------------------
\* Domain policy matcher of the SOCKS5 proxy (src/proxy/socks_proxy.rs)
\* ---------------------------------------------------------------------------
\* mutant: `*` is expanded before `.` is escaped, so the dot of `.*` is escaped too
Socks_domain_to_regex_StarFirst(pattern) ==
    LET starred == str_replace(pattern, "*", <<".", "*">>)
        escaped == str_replace(starred, ".", <<"\\", ".">>)
        re == Regex_new(<<"^">> \o escaped \o <<"$">>)
    IN IF re.ok THEN re ELSE [ok |-> FALSE, items |-> <<>>, err |-> ErrConfig]

Socks_domain_to_regex(pattern) ==
    LET escaped == str_replace(pattern, ".", <<"\\", ".">>)
        starred == str_replace(escaped, "*", <<".", "*">>)
        re == Regex_new(<<"^">> \o starred \o <<"$">>)
    IN IF re.ok THEN re ELSE [ok |-> FALSE, items |-> <<>>, err |-> ErrConfig]

\* mutant: an empty allow list allows nothing
Socks_is_domain_allowed_NoDefault(domain, allowed, denied) ==
    IF \E i \in 1..Len(denied) : is_match(denied[i], domain) THEN FALSE
    ELSE \E i \in 1..Len(allowed) : is_match(allowed[i], domain)

\* mutant: every allow pattern must match, not just one
Socks_is_domain_allowed_All(domain, allowed, denied) ==
    IF \E i \in 1..Len(denied) : is_match(denied[i], domain) THEN FALSE
    ELSE IF allowed = <<>> THEN TRUE
    ELSE \A i \in 1..Len(allowed) : is_match(allowed[i], domain)

\* a dotted-decimal IPv4 address as text: four runs of digits and three dots
IsIpv4Text(s) ==
    /\ s # <<>>
    /\ \A i \in 1..Len(s) :
          s[i] \in {"0", "1", "2", "3", "4", "5", "6", "7", "8", "9", "."}
    /\ Cardinality({i \in 1..Len(s) : s[i] = "."}) = 3
    /\ s[1] # "." /\ s[Len(s)] # "."
    /\ \A i \in 1..(Len(s) - 1) : ~(s[i] = "." /\ s[i + 1] = ".")

\* mutant: a target that is an IP literal is let through without the lists
Socks_is_domain_allowed_IpBypass(domain, allowed, denied) ==
    IF IsIpv4Text(domain) THEN TRUE
    ELSE IF \E i \in 1..Len(denied) : is_match(denied[i], domain) THEN FALSE
    ELSE IF allowed = <<>> THEN TRUE
    ELSE \E i \in 1..Len(allowed) : is_match(allowed[i], domain)

Socks_is_domain_allowed(domain, allowed, denied) ==
    IF \E i \in 1..Len(denied) : is_match(denied[i], domain) THEN FALSE
    ELSE IF allowed = <<>> THEN TRUE
    ELSE \E i \in 1..Len(allowed) : is_match(allowed[i], domain)

\* SocksProxy::new
SocksProxy_new(allowed_domains, denied_domains) ==
    LET a == CollectResults([i \in 1..Len(allowed_domains) |-> Socks_domain_to_regex(allowed_domains[i])])
        d == CollectResults([i \in 1..Len(denied_domains) |-> Socks_domain_to_regex(denied_domains[i])])
    IN IF ~a.ok \/ ~d.ok THEN [ok |-> FALSE, err |-> ErrConfig]
       ELSE [ok |-> TRUE, allowed_domains |-> a.list,
             denied_domains |-> d.list, port |-> 0]

\* ---------------------------------------------------------------------------
\* Named patterns and hosts (the ones of the unit tests and of the examples)
\* ---------------------------------------------------------------------------
P_star_example_com == <<"*", ".", "e", "x", "a", "m", "p", "l", "e", ".", "c", "o", "m">>
P_google_com == <<"g", "o", "o", "g", "l", "e", ".", "c", "o", "m">>
P_evil_example_com ==
    <<"e", "v", "i", "l", ".", "e", "x", "a", "m", "p", "l", "e", ".", "c", "o", "m">>
P_blocked_com == <<"b", "l", "o", "c", "k", "e", "d", ".", "c", "o", "m">>

H_api_example_com ==
    <<"a", "p", "i", ".", "e", "x", "a", "m", "p", "l", "e", ".", "c", "o", "m">>
H_a_b_example_com ==
    <<"a", ".", "b", ".", "e", "x", "a", "m", "p", "l", "e", ".", "c", "o", "m">>
H_example_com == <<"e", "x", "a", "m", "p", "l", "e", ".", "c", "o", "m">>
H_other_com == <<"o", "t", "h", "e", "r", ".", "c", "o", "m">>
H_anything_com == <<"a", "n", "y", "t", "h", "i", "n", "g", ".", "c", "o", "m">>
H_api_example_com_evil_org == H_api_example_com \o <<".", "e", "v", "i", "l", ".", "o", "r", "g">>
H_Google_com == <<"G", "o", "o", "g", "l", "e", ".", "c", "o", "m">>
H_googleXcom == <<"g", "o", "o", "g", "l", "e", "x", "c", "o", "m">>

\* a pattern the regex crate rejects: an unclosed group
P_unclosed == <<"(", "a">>

AllowPool == {P_star_example_com, P_google_com, P_evil_example_com, P_unclosed}
DenyPool == {P_evil_example_com, P_blocked_com, P_unclosed}
NamedHosts ==
    {H_api_example_com, H_a_b_example_com, H_example_com, P_evil_example_com,
     H_other_com, P_google_com, P_blocked_com, H_anything_com,
     H_api_example_com_evil_org, H_Google_com, H_googleXcom}

GenPatterns == StringsUpTo(PatChars, MaxPatLen)
GenHosts == StringsUpTo(HostChars, MaxHostLen)

\* the inputs of the matcher: policies over the named patterns with the named
\* hosts, and every generated pattern alone in the allow list or in the deny
\* list with every generated host
MatcherInput(x) ==
    \/ \E h \in NamedHosts :
       \E a \in ListsUpTo(AllowPool, MaxListLen) :
       \E d \in ListsUpTo(DenyPool, MaxListLen) :
          x = [host |-> h, allowed |-> a, denied |-> d]
    \/ \E h \in GenHosts : \E p \in GenPatterns :
          \/ x = [host |-> h, allowed |-> <<p>>, denied |-> <<>>]
          \/ x = [host |-> h, allowed |-> <<>>, denied |-> <<p>>]

\* ---------------------------------------------------------------------------
\* Environment of the manager
\* ---------------------------------------------------------------------------
\* ephemeral ports the operating system can hand out to TcpListener::bind
MaxPorts == 4
\* connections accepted by the proxies over a run
MaxConns == 2

Ports == 1..MaxPorts
Commands == {"cmd"}

\* Option<T>: <<>> is None, <<x>> is Some(x)
Some(x) == <<x>>
IsSome(o) == o # <<>>
Unwrap(o) == o[1]

P_star_a == <<"*", ".", "a">>
P_b_a == <<"b", ".", "a">>
H_a_a == <<"a", ".", "a">>

\* config.network of the modelled managers: no restriction, an allow list with
\* a deny override, and an allow list holding a pattern that does not compile
NetworkConfigs ==
    {[allowed_domains |-> <<>>, denied_domains |-> <<>>],
     [allowed_domains |-> <<P_star_a>>, denied_domains |-> <<P_b_a>>],
     [allowed_domains |-> <<P_unclosed>>, denied_domains |-> <<>>]}
\* config.docker
DockerConfigs == {<<>>, Some([auto_remove |-> TRUE]), Some([auto_remove |-> FALSE])}
\* the build target (cfg(target_os))
Platforms == {"linux", "macos", "windows"}

\* what a platform builder meets: the isolation executable may be missing, a
\* path expansion may fail, the profile file may not be writable
BuilderOutcomes == {"none", "ok", "tool_missing", "expand_error", "write_error"}
\* how the spawned child ends: an exit code, a signal, or sh cannot be spawned
ChildOutcomes == {"none", "exit0", "exit1", "signal", "spawn_error"}
\* the step of the container driver that fails, if any
DockerFaults == {"none", "connect", "create", "start", "exec", "remove"}

\* u8 and Ipv4Addr Display
DigitChars == <<"0", "1", "2", "3", "4", "5", "6", "7", "8", "9">>
RECURSIVE u8_to_string(_)
u8_to_string(n) ==
    IF n < 10 THEN <<DigitChars[n + 1]>>
    ELSE u8_to_string(n \div 10) \o <<DigitChars[(n % 10) + 1]>>
Ipv4_to_string(ip) ==
    u8_to_string(ip[1]) \o <<".">> \o u8_to_string(ip[2]) \o <<".">>
    \o u8_to_string(ip[3]) \o <<".">> \o u8_to_string(ip[4])

\* the targets SOCKS5 clients ask for (TargetAddr::Domain, TargetAddr::Ip)
SocksTargets ==
    {[type |-> "domain", domain |-> P_b_a, ip |-> <<>>],
     [type |-> "domain", domain |-> H_a_a, ip |-> <<>>],
     [type |-> "ip", domain |-> <<>>, ip |-> <<10, 0, 0, 1>>]}

\* ---------------------------------------------------------------------------
\* State
\* ---------------------------------------------------------------------------
VARIABLES
    \* matcher harness: the host and the two pattern lists under evaluation,
    \* and the outcome of each proxy's matcher ("none" until evaluated, then
    \* ErrConfig when a pattern does not compile, else "allow" or "deny")
    input, httpOut, socksOut,
    \* SandboxManager: config (network, docker), the build target, the
    \* initialized flag and the two Option<proxy> handles
    config, platform, initialized, http_proxy, socks_proxy,
    \* the accept-loop tasks spawned on the runtime, each owning its listener
    tasks,
    \* the SOCKS5 connections handed to handle_socks_connection, and the
    \* connections for which a connect to the upstream target was attempted
    conns, upstream,
    \* the last manager call: its name, its result, and what it did
    last,
    \* ViolationStore: the log, the subscriber list (each callback stands for
    \* the list of invocations it has received), and the threads calling it
    violations, subscribers, thr,
    \* every violation ever appended, in the order of the appends, and the
    \* number of them that a clear() has since removed from the log
    history, cleared_upto,
    \* the connections handed to the HTTP proxy's handle_connection, and the
    \* ports of the accept loops that have logged an accept error
    hconns, accept_errors,
    \* a platform builder (LinuxSandbox or MacOSSandbox) constructed on its
    \* own, the paths that exist on disk, and what its wrap_command returned
    sandbox, disk, built,
    \* the holder of each of the store's two mutexes (0: free), each thread's
    \* position in the subscriber list while it notifies, and every subscriber
    \* invocation made so far, in order
    violations_lock, subscribers_lock, cb, invocations,
    \* the host around the manager: the lines of the OS sandbox log (oslog),
    \* how many of them the OS has emitted so far (written), and the position
    \* in the log of every running `log stream` observer thread (monitors)
    oslog, written, monitors,
    \* the async runtime the manager is driven by, the thread blocked in
    \* Command::status() while execute waits (None when none), and the
    \* sandboxed child process
    runtime, waiting, childproc,
    \* the macOS profile file of this process (None until written), the
    \* wrapped invocations a caller holds and has not run yet, and the
    \* invocations run so far, each with the profile it ran under
    profile_file, pending, ran

matcherVars == <<input, httpOut, socksOut>>
managerVars == <<config, platform, initialized, http_proxy, socks_proxy, tasks>>
connVars == <<conns, upstream, hconns, accept_errors>>
storeVars == <<violations, subscribers, thr, history, cleared_upto>>
builderVars == <<sandbox, disk, built>>
lockVars == <<violations_lock, subscribers_lock, cb, invocations>>
logVars == <<oslog, written, monitors>>
execVars == <<runtime, waiting, childproc>>
fileVars == <<profile_file, pending, ran>>
hostVars == <<logVars, execVars, fileVars>>
vars == <<input, httpOut, socksOut, config, platform, initialized, http_proxy,
          socks_proxy, tasks, conns, upstream, last, violations, subscribers,
          thr, history, cleared_upto, hconns, accept_errors, sandbox, disk,
          built, violations_lock, subscribers_lock, cb, invocations, oslog,
          written, monitors, runtime, waiting, childproc, profile_file, pending,
          ran>>

\* ---------------------------------------------------------------------------
\* ViolationStore (src/sandbox/violation_store.rs)
\* ---------------------------------------------------------------------------
\* appends made to one store over a run
MaxAdds == 2
\* callbacks registered over a run
MaxSubs == 1
\* the threads sharing the store: the thread that owns the manager, which may
\* call every operation, and the observer thread holding a clone of the
\* store, which only calls add_violation (through parse_and_add_violation)
Callers == {1}
Observers == {2}
Threads == Callers \cup Observers

ViolationTypes == {"Network", "FilesystemWrite"}
\* the violations of the unit tests and a second one of type Network
\* (process and timestamp play no part)
Violations ==
    {[violation_type |-> "Network", target |-> "evil.com"],
     [violation_type |-> "Network", target |-> "other.com"],
     [violation_type |-> "FilesystemWrite", target |-> "/etc/passwd"]}

\* what a thread last got back from a query of the store
NoReturn == [op |-> "none", list |-> <<>>, n |-> 0]
\* a thread outside any call of the store. Inside add_violation it holds the
\* argument v, the place id of its append in the history, the count (prev)
\* and the number of subscribers (nsubs) at the time of the call, and
\* whether an append (appended) or a clear (cleared) made by another thread
\* fell inside the call
ThreadIdle(ret) ==
    [pc |-> "idle", v |-> <<>>, id |-> 0, prev |-> 0, nsubs |-> 0,
     appended |-> FALSE, cleared |-> FALSE, ret |-> ret]

\* a thread that is not inside a subscriber callback: i is the position in
\* the subscriber list of the callback being run, op what that callback calls
\* on the store
NoCallback == [i |-> 0, op |-> "none"]

\* ViolationStore::new: an empty log and no subscriber, both mutexes free
StoreNew ==
    /\ violations = <<>>
    /\ subscribers = <<>>
    /\ history = <<>>
    /\ cleared_upto = 0
    /\ thr = [t \in Threads |-> ThreadIdle(NoReturn)]
    /\ violations_lock = 0
    /\ subscribers_lock = 0
    /\ cb = [t \in Threads |-> NoCallback]
    /\ invocations = <<>>

\* a boolean decision as a value comparable with "none" and ErrConfig
Verdict(b) == IF b THEN "allow" ELSE "deny"

\* what a call met outside the manager: the state of the platform builder's
\* surroundings, how the spawned child ended, the container step that failed
NoEnv == [builder |-> "none", child |-> "none", fault |-> "none"]

\* op: the method, res: "Ok" or the error variant, code: the exit code of an
\* Ok execute, effects: the outward steps the call took, in order, wrapped:
\* the wrapped invocation it built, again: the call before it was the same
\* method, after: the method and the result of the call before it, env: what
\* the call met outside the manager, spawned: the string handed to `sh -c`
NoCall ==
    [op |-> "none", res |-> "Ok", code |-> 0, effects |-> <<>>, wrapped |-> <<>>,
     again |-> FALSE, after |-> <<"none", "Ok">>, env |-> NoEnv, spawned |-> <<>>]
Call(op, res, code, effects, wrapped) ==
    [op |-> op, res |-> res, code |-> code, effects |-> effects, wrapped |-> wrapped,
     again |-> (last.op = op), after |-> <<last.op, last.res>>, env |-> NoEnv,
     spawned |-> <<>>]

\* SandboxManager::new: no proxy, not initialized
ManagerNew(cfg, plat) ==
    /\ config = cfg
    /\ platform = plat
    /\ initialized = FALSE
    /\ http_proxy = <<>>
    /\ socks_proxy = <<>>
    /\ tasks = {}
    /\ conns = <<>>
    /\ upstream = {}
    /\ hconns = <<>>
    /\ accept_errors = {}
    /\ StoreNew
    /\ last = NoCall

MatcherIdle ==
    /\ input = [host |-> <<>>, allowed |-> <<>>, denied |-> <<>>]
    /\ httpOut = "none"
    /\ socksOut = "none"

\* no platform builder constructed on its own
NoSandbox ==
    [kind |-> "none",
     filesystem |-> [deny_read |-> <<>>, allow_write |-> <<>>, deny_write |-> <<>>],
     http_proxy_port |-> <<>>, socks_proxy_port |-> <<>>]
NoBuilt == [res |-> "none", profile |-> <<>>, args |-> <<>>, self |-> NoSandbox]
BuilderIdle ==
    /\ sandbox = NoSandbox
    /\ disk = {}
    /\ built = NoBuilt
\* an empty OS log and no observer thread
NoRuntime == [flavor |-> "none", workers |-> 0]
LogIdle ==
    /\ oslog = <<>>
    /\ written = 0
    /\ monitors = <<>>
ExecIdle ==
    /\ runtime = NoRuntime
    /\ waiting = <<>>
    /\ childproc = "none"
FilesIdle ==
    /\ profile_file = <<>>
    /\ pending = <<>>
    /\ ran = <<>>
HostIdle == LogIdle /\ ExecIdle /\ FilesIdle

\* ---------------------------------------------------------------------------
\* Matcher harness
\* ---------------------------------------------------------------------------
MatcherInit ==
    /\ MatcherInput(input)
    /\ BuilderIdle
    /\ HostIdle
    /\ httpOut = "none"
    /\ socksOut = "none"
    /\ ManagerNew([network |-> [allowed_domains |-> <<>>, denied_domains |-> <<>>],
                   docker |-> <<>>], "linux")

\* HttpProxy::new on the input's lists, then is_domain_allowed on its host
MatchHttp ==
    /\ httpOut = "none"
    /\ \E p \in {HttpProxy_new(input.allowed, input.denied)} :
          httpOut' = IF ~p.ok THEN p.err
                     ELSE Verdict(Http_is_domain_allowed(
                              input.host, p.allowed_domains, p.denied_domains))
    /\ UNCHANGED <<hostVars, builderVars, lockVars, input, socksOut, managerVars, connVars, storeVars, last>>

\* SocksProxy::new on the input's lists, then is_domain_allowed on its host
MatchSocks ==
    /\ socksOut = "none"
    /\ \E p \in {SocksProxy_new(input.allowed, input.denied)} :
          socksOut' = IF ~p.ok THEN p.err
                      ELSE Verdict(Socks_is_domain_allowed(
                               input.host, p.allowed_domains, p.denied_domains))
    /\ UNCHANGED <<hostVars, builderVars, lockVars, input, httpOut, managerVars, connVars, storeVars, last>>

MatcherNext == MatchHttp \/ MatchSocks

SpecMatcher == MatcherInit /\ [][MatcherNext]_vars

\* ---------------------------------------------------------------------------
\* SandboxManager (src/sandbox/manager.rs)
\* ---------------------------------------------------------------------------
Init ==
    /\ MatcherIdle
    /\ BuilderIdle
    /\ HostIdle
    /\ \E n \in NetworkConfigs : \E d \in DockerConfigs : \E plat \in Platforms :
          ManagerNew([network |-> n, docker |-> d], plat)

BoundPorts == {t.port : t \in tasks}
\* TcpListener::bind on 127.0.0.1:0: a free port, or 0 for a failed bind. Port
\* numbers are interchangeable, so the lowest free one stands for the
\* operating system's choice.
BindChoices(taken) ==
    LET free == Ports \ taken
    IN {0} \cup {p \in free : \A q \in free : p <= q}

AcceptTask(kind, proxy, port) ==
    [kind |-> kind, port |-> port, allowed |-> proxy.allowed_domains,
     denied |-> proxy.denied_domains]

\* mutant: initialize without the check of the initialized flag, so every call
\* constructs and starts both proxies
Initialize_NoCheck ==
    \E hp \in {HttpProxy_new(config.network.allowed_domains,
                             config.network.denied_domains)} :
    \E sp \in {SocksProxy_new(config.network.allowed_domains,
                              config.network.denied_domains)} :
    \E hb \in BindChoices(BoundPorts) \ {0} :
    \E sb \in BindChoices(BoundPorts \cup {hb}) \ {0} :
    /\ hp.ok /\ sp.ok
    /\ UNCHANGED <<hostVars, builderVars, lockVars, matcherVars, storeVars, config, platform, connVars>>
    /\ tasks' = tasks \cup {AcceptTask("http", hp, hb), AcceptTask("socks", sp, sb)}
    /\ http_proxy' = Some([hp EXCEPT !.port = hb])
    /\ socks_proxy' = Some([sp EXCEPT !.port = sb])
    /\ initialized' = TRUE
    /\ last' = Call("initialize", "Ok", 0,
                    <<"bind_http", "spawn_http_accept",
                      "bind_socks", "spawn_socks_accept">>, <<>>)

\* mutant: the HTTP handle is stored as soon as the HTTP proxy has started,
\* before the SOCKS5 proxy is constructed
Initialize_StoresHttpFirst ==
    \E hp \in {HttpProxy_new(config.network.allowed_domains,
                             config.network.denied_domains)} :
    \E sp \in {SocksProxy_new(config.network.allowed_domains,
                              config.network.denied_domains)} :
    \E hb \in BindChoices(BoundPorts) :
    \E sb \in BindChoices(BoundPorts \cup {hb}) :
    /\ UNCHANGED <<hostVars, builderVars, lockVars, matcherVars, storeVars, config, platform, connVars>>
    /\ IF initialized \/ ~hp.ok \/ hb = 0 THEN
          /\ hb = 0 /\ sb = 0
          /\ last' = Call("initialize",
                          IF initialized THEN "Ok"
                          ELSE IF ~hp.ok THEN hp.err ELSE ErrIo, 0, <<>>, <<>>)
          /\ UNCHANGED <<initialized, http_proxy, socks_proxy, tasks>>
       ELSE IF ~sp.ok \/ sb = 0 THEN
          /\ sb = 0
          /\ tasks' = tasks \cup {AcceptTask("http", hp, hb)}
          /\ http_proxy' = Some([hp EXCEPT !.port = hb])
          /\ last' = Call("initialize", IF ~sp.ok THEN sp.err ELSE ErrIo, 0,
                          <<"bind_http", "spawn_http_accept">>, <<>>)
          /\ UNCHANGED <<initialized, socks_proxy>>
       ELSE
          /\ tasks' = tasks \cup {AcceptTask("http", hp, hb),
                                  AcceptTask("socks", sp, sb)}
          /\ http_proxy' = Some([hp EXCEPT !.port = hb])
          /\ socks_proxy' = Some([sp EXCEPT !.port = sb])
          /\ initialized' = TRUE
          /\ last' = Call("initialize", "Ok", 0,
                          <<"bind_http", "spawn_http_accept",
                            "bind_socks", "spawn_socks_accept">>, <<>>)

\* initialize(): no-op when initialized; else HttpProxy::new, start (bind and
\* spawn the accept loop), SocksProxy::new, start, then both handles are
\* stored and initialized is set. Every `?` returns the error at once. On
\* macOS the call ends with start_monitoring(), which spawns an observer
\* thread that tails the OS log from then on.
Initialize ==
    \E hp \in {HttpProxy_new(config.network.allowed_domains,
                             config.network.denied_domains)} :
    \E sp \in {SocksProxy_new(config.network.allowed_domains,
                              config.network.denied_domains)} :
    \E hb \in BindChoices(BoundPorts) :
    \E sb \in BindChoices(BoundPorts \cup {hb}) :
    LET httpTask == AcceptTask("http", hp, hb)
        socksTask == AcceptTask("socks", sp, sb)
    IN
    /\ UNCHANGED <<oslog, written, execVars, fileVars, builderVars, lockVars,
                   matcherVars, storeVars, config, platform, connVars>>
    /\ IF initialized THEN
          /\ hb = 0 /\ sb = 0
          /\ last' = Call("initialize", "Ok", 0, <<>>, <<>>)
          /\ UNCHANGED <<initialized, http_proxy, socks_proxy, tasks, monitors>>
       ELSE IF ~hp.ok THEN
          /\ hb = 0 /\ sb = 0
          /\ last' = Call("initialize", hp.err, 0, <<>>, <<>>)
          /\ UNCHANGED <<initialized, http_proxy, socks_proxy, tasks, monitors>>
       ELSE IF hb = 0 THEN
          /\ sb = 0
          /\ last' = Call("initialize", ErrIo, 0, <<"bind_http">>, <<>>)
          /\ UNCHANGED <<initialized, http_proxy, socks_proxy, tasks, monitors>>
       ELSE IF ~sp.ok THEN
          /\ sb = 0
          /\ tasks' = tasks \cup {httpTask}
          /\ last' = Call("initialize", sp.err, 0,
                          <<"bind_http", "spawn_http_accept">>, <<>>)
          /\ UNCHANGED <<initialized, http_proxy, socks_proxy, monitors>>
       ELSE IF sb = 0 THEN
          /\ tasks' = tasks \cup {httpTask}
          /\ last' = Call("initialize", ErrIo, 0,
                          <<"bind_http", "spawn_http_accept", "bind_socks">>, <<>>)
          /\ UNCHANGED <<initialized, http_proxy, socks_proxy, monitors>>
       ELSE
          /\ tasks' = tasks \cup {httpTask, socksTask}
          /\ http_proxy' = Some([hp EXCEPT !.port = hb])
          /\ socks_proxy' = Some([sp EXCEPT !.port = sb])
          /\ initialized' = TRUE
          /\ monitors' = IF platform = "macos"
                         THEN Append(monitors, written) ELSE monitors
          /\ last' = Call("initialize", "Ok", 0,
                          <<"bind_http", "spawn_http_accept",
                            "bind_socks", "spawn_socks_accept">>, <<>>)

\* LinuxSandbox::new, set_proxy_ports, wrap_command
LinuxSandbox_wrap(builder, http_port, socks_port, command) ==
    IF builder = "tool_missing" THEN [res |-> ErrCommandNotFound, wrapped |-> <<>>]
    ELSE IF builder = "expand_error" THEN [res |-> ErrConfig, wrapped |-> <<>>]
    ELSE [res |-> "Ok",
          wrapped |-> Some([via |-> "bwrap", http_port |-> http_port,
                            socks_port |-> socks_port, command |-> command])]

\* MacOSSandbox::new, set_proxy_ports, wrap_command
MacOSSandbox_wrap(builder, http_port, socks_port, command) ==
    IF builder = "tool_missing" THEN [res |-> ErrUnsupportedPlatform, wrapped |-> <<>>]
    ELSE IF builder = "expand_error" THEN [res |-> ErrConfig, wrapped |-> <<>>]
    ELSE IF builder = "write_error" THEN [res |-> ErrIo, wrapped |-> <<>>]
    ELSE [res |-> "Ok",
          wrapped |-> Some([via |-> "sandbox-exec", http_port |-> http_port,
                            socks_port |-> socks_port, command |-> command])]

\* the docker command line of wrap_command
DockerWrapped(command) ==
    [res |-> "Ok",
     wrapped |-> Some([via |-> "docker", http_port |-> 0, socks_port |-> 0,
                       command |-> command])]

\* mutant: the builder is handed the ports in the wrong places
wrap_command_os_SwappedPorts(command, builder) ==
    IF platform \in {"linux", "macos"} THEN
        IF ~IsSome(http_proxy) THEN [res |-> ErrExecution, wrapped |-> <<>>]
        ELSE IF ~IsSome(socks_proxy) THEN [res |-> ErrExecution, wrapped |-> <<>>]
        ELSE IF platform = "linux"
             THEN LinuxSandbox_wrap(builder, Unwrap(socks_proxy).port,
                                    Unwrap(http_proxy).port, command)
             ELSE MacOSSandbox_wrap(builder, Unwrap(socks_proxy).port,
                                    Unwrap(http_proxy).port, command)
    ELSE [res |-> ErrUnsupportedPlatform, wrapped |-> <<>>]

\* the OS-level branch of wrap_command: the ports of the two handles go to
\* the builder of the build target
wrap_command_os(command, builder) ==
    IF platform \in {"linux", "macos"} THEN
        IF ~IsSome(http_proxy) THEN [res |-> ErrExecution, wrapped |-> <<>>]
        ELSE IF ~IsSome(socks_proxy) THEN [res |-> ErrExecution, wrapped |-> <<>>]
        ELSE IF platform = "linux"
             THEN LinuxSandbox_wrap(builder, Unwrap(http_proxy).port,
                                    Unwrap(socks_proxy).port, command)
             ELSE MacOSSandbox_wrap(builder, Unwrap(http_proxy).port,
                                    Unwrap(socks_proxy).port, command)
    ELSE [res |-> ErrUnsupportedPlatform, wrapped |-> <<>>]

\* mutant: the container configuration is looked at before the state gate
wrap_command_DockerFirst(command, builder) ==
    IF IsSome(config.docker) THEN DockerWrapped(command)
    ELSE IF ~initialized THEN [res |-> ErrExecution, wrapped |-> <<>>]
    ELSE wrap_command_os(command, builder)

\* wrap_command(&self, command): the state gate, then the docker command line
\* when a container is configured, else the platform's builder
wrap_command(command, builder) ==
    IF ~initialized THEN [res |-> ErrExecution, wrapped |-> <<>>]
    ELSE IF IsSome(config.docker) THEN DockerWrapped(command)
    ELSE wrap_command_os(command, builder)

\* what the platform builder of a call meets: nothing when the call returns
\* before constructing one (state gate, container configured, unsupported
\* target, a handle missing); only the macOS builder writes a profile file
BuilderMeets ==
    IF ~initialized \/ IsSome(config.docker) \/ platform \notin {"linux", "macos"}
       \/ ~IsSome(http_proxy) \/ ~IsSome(socks_proxy)
    THEN {"none"}
    ELSE IF platform = "linux" THEN BuilderOutcomes \ {"none", "write_error"}
    ELSE BuilderOutcomes \ {"none"}

WrapCommand ==
    \E command \in Commands : \E builder \in BuilderMeets :
    \E w \in {wrap_command(command, builder)} :
        /\ last' = [Call("wrap_command", w.res, 0, <<>>, w.wrapped)
                     EXCEPT !.env = [NoEnv EXCEPT !.builder = builder]]
        /\ UNCHANGED <<hostVars, builderVars, lockVars, matcherVars, storeVars, managerVars, connVars>>

\* mutant: the container is removed whether or not auto_remove is set
DockerSteps_AlwaysRemove(auto_remove, fault) ==
    LET all == <<"connect", "create", "start", "exec", "remove">>
        upto == IF \E i \in 1..Len(all) : all[i] = fault
                THEN CHOOSE i \in 1..Len(all) : all[i] = fault
                ELSE Len(all)
    IN [i \in 1..upto |-> all[i]]

\* the calls execute makes to the container driver, up to the failing one
DockerSteps(auto_remove, fault) ==
    LET all == <<"connect", "create", "start", "exec">>
               \o (IF auto_remove THEN <<"remove">> ELSE <<>>)
        upto == IF \E i \in 1..Len(all) : all[i] = fault
                THEN CHOOSE i \in 1..Len(all) : all[i] = fault
                ELSE Len(all)
    IN [i \in 1..upto |-> all[i]]

\* ExitStatus::code().unwrap_or(-1)
ExitCode(outcome) ==
    IF outcome = "exit0" THEN 0 ELSE IF outcome = "exit1" THEN 1 ELSE -1

\* execute_shell(command, true): `sh -c command` with inherited stdio; Io when
\* sh cannot be spawned, else the status code of the child
execute_shell(command, child) ==
    IF child = "spawn_error"
    THEN [res |-> ErrIo, code |-> 0, effects |-> <<>>, spawned |-> <<>>]
    ELSE [res |-> "Ok", code |-> ExitCode(child), effects |-> <<"spawn_child">>,
          spawned |-> command]

\* mutant: when the platform builder fails, the user command is run as it is
Execute_Fallback ==
    \E command \in Commands : \E builder \in BuilderMeets :
    \E child \in ChildOutcomes : \E fault \in DockerFaults :
    /\ UNCHANGED <<hostVars, builderVars, lockVars, matcherVars, storeVars, managerVars, connVars>>
    /\ ~IsSome(config.docker)
    /\ fault = "none"
    /\ \E w \in {wrap_command(command, builder)} :
       \E x \in {execute_shell(IF w.res = "Ok" THEN w.wrapped
                                ELSE Some([via |-> "sh", http_port |-> 0,
                                           socks_port |-> 0, command |-> command]),
                                child)} :
          last' = [Call("execute", x.res, x.code, x.effects, w.wrapped)
                   EXCEPT !.env = [builder |-> builder, child |-> child,
                                   fault |-> fault],
                          !.spawned = x.spawned]

\* mutant: a child that exits with a non-zero code is reported as an error
Execute_NonZeroIsError ==
    \E command \in Commands : \E builder \in BuilderMeets :
    \E child \in ChildOutcomes : \E fault \in DockerFaults :
    /\ UNCHANGED <<hostVars, builderVars, lockVars, matcherVars, storeVars, managerVars, connVars>>
    /\ ~IsSome(config.docker)
    /\ fault = "none"
    /\ \E w \in {wrap_command(command, builder)} :
          IF w.res # "Ok" THEN
              /\ child = "none"
              /\ last' = [Call("execute", w.res, 0, <<>>, <<>>)
                          EXCEPT !.env = [builder |-> builder, child |-> child,
                                          fault |-> fault]]
          ELSE
              /\ child # "none"
              /\ \E x \in {execute_shell(w.wrapped, child)} :
                    last' = [Call("execute",
                                  IF x.res = "Ok" /\ x.code # 0 THEN ErrExecution
                                  ELSE x.res,
                                  x.code, x.effects, w.wrapped)
                             EXCEPT !.env = [builder |-> builder, child |-> child,
                                             fault |-> fault],
                                    !.spawned = x.spawned]

\* execute(&self, command): the container driver when a container is
\* configured; else wrap_command, then execute_shell on the wrapped string
Execute ==
    \E command \in Commands : \E builder \in BuilderMeets :
    \E child \in ChildOutcomes : \E fault \in DockerFaults :
    /\ UNCHANGED <<hostVars, builderVars, lockVars, matcherVars, storeVars, managerVars, connVars>>
    /\ IF IsSome(config.docker) THEN
          LET auto_remove == Unwrap(config.docker).auto_remove
              steps == DockerSteps(auto_remove, fault)
              failed == fault # "none" /\ steps[Len(steps)] = fault
          IN /\ fault = "remove" => auto_remove
             /\ IF fault \in {"connect", "create", "start", "exec"}
                THEN child = "none" ELSE child \in {"exit0", "exit1"}
             /\ last' = [(IF failed
                          THEN Call("execute", ErrDocker, 0, steps, <<>>)
                          ELSE Call("execute", "Ok", ExitCode(child), steps, <<>>))
                         EXCEPT !.env = [builder |-> builder, child |-> child,
                                         fault |-> fault]]
       ELSE
          /\ fault = "none"
          /\ \E w \in {wrap_command(command, builder)} :
                IF w.res # "Ok" THEN
                    /\ child = "none"
                    /\ last' = [Call("execute", w.res, 0, <<>>, <<>>)
                                EXCEPT !.env = [builder |-> builder,
                                                child |-> child, fault |-> fault]]
                ELSE
                    /\ child # "none"
                    /\ \E x \in {execute_shell(w.wrapped, child)} :
                          last' = [Call("execute", x.res, x.code, x.effects, w.wrapped)
                                   EXCEPT !.env = [builder |-> builder,
                                                   child |-> child, fault |-> fault],
                                          !.spawned = x.spawned]

\* the handles a reset drops
DroppedHandles ==
    (IF IsSome(http_proxy) THEN <<"drop_http_proxy">> ELSE <<>>)
    \o (IF IsSome(socks_proxy) THEN <<"drop_socks_proxy">> ELSE <<>>)

\* mutant: reset also empties the violation log
Reset_ClearsStore ==
    /\ http_proxy' = <<>>
    /\ socks_proxy' = <<>>
    /\ initialized' = FALSE
    /\ violations' = <<>>
    /\ cleared_upto' = Len(history)
    /\ last' = Call("reset", "Ok", 0, DroppedHandles, <<>>)
    /\ UNCHANGED <<hostVars, builderVars, lockVars, matcherVars, subscribers, thr, history, config, platform, tasks, connVars>>

\* mutant: reset drops the handles and leaves the flag set
Reset_KeepsFlag ==
    /\ http_proxy' = <<>>
    /\ socks_proxy' = <<>>
    /\ last' = Call("reset", "Ok", 0, DroppedHandles, <<>>)
    /\ UNCHANGED <<hostVars, builderVars, lockVars, matcherVars, storeVars, config, platform, initialized, tasks, connVars>>

\* mutant: reset leaves the SOCKS5 handle in place
Reset_KeepsSocks ==
    /\ http_proxy' = <<>>
    /\ initialized' = FALSE
    /\ last' = Call("reset", "Ok", 0, DroppedHandles, <<>>)
    /\ UNCHANGED <<hostVars, builderVars, lockVars, matcherVars, storeVars, config, platform, socks_proxy, tasks, connVars>>

\* reset(&mut self): both handles become None, initialized becomes false. The
\* handles own the compiled lists and the port number; the accept loops were
\* handed to tokio::spawn with their listeners and are not touched.
Reset ==
    /\ http_proxy' = <<>>
    /\ socks_proxy' = <<>>
    /\ initialized' = FALSE
    /\ last' = Call("reset", "Ok", 0, DroppedHandles, <<>>)
    /\ UNCHANGED <<hostVars, builderVars, lockVars, matcherVars, storeVars, config, platform, tasks, connVars>>

\* ---------------------------------------------------------------------------
\* SOCKS5 connections (src/proxy/socks_proxy.rs)
\* ---------------------------------------------------------------------------
\* the accept loop of a SOCKS5 task hands a new connection to its own task
SocksAcceptOn(t) ==
        /\ t.kind = "socks"
        /\ Len(conns) + Len(hconns) < MaxConns
        /\ conns' = Append(conns, [pc |-> "accepted", port |-> t.port,
                                   allowed |-> t.allowed, denied |-> t.denied,
                                   target |-> <<>>])
        /\ UNCHANGED <<hostVars, builderVars, lockVars, matcherVars, storeVars, managerVars, upstream, hconns, accept_errors, last>>

SocksAccept == \E t \in tasks : SocksAcceptOn(t)

\* socket.upgrade_to_socks5().await?: the handshake fails, or yields the
\* request with its target
SocksUpgrade ==
    \E c \in 1..Len(conns) :
        /\ conns[c].pc = "accepted"
        /\ \/ conns' = [conns EXCEPT ![c].pc = "handshake_error"]
           \/ \E t \in SocksTargets :
                 conns' = [conns EXCEPT ![c].pc = "requested", ![c].target = Some(t)]
        /\ UNCHANGED <<hostVars, builderVars, lockVars, matcherVars, storeVars, managerVars, upstream, hconns, accept_errors, last>>

\* the host the policy is evaluated on: ip.ip().to_string() or domain.clone()
socks_target_host(target) ==
    IF target.type = "ip" THEN Ipv4_to_string(target.ip) ELSE target.domain

\* mutant: the handler goes on to connect without consulting the policy
socks_policy_step_NoCheck(target, allowed, denied) == "connecting"

\* handle_socks_connection between the upgrade and the connect: Err (blocked)
\* when the policy denies the target host, else on to request.connect()
socks_policy_step(target, allowed, denied) ==
    IF ~Socks_is_domain_allowed(socks_target_host(target), allowed, denied)
    THEN "blocked"
    ELSE "connecting"

SocksDecide ==
    \E c \in 1..Len(conns) :
        /\ conns[c].pc = "requested"
        /\ conns' = [conns EXCEPT ![c].pc =
                        socks_policy_step(Unwrap(conns[c].target),
                                          conns[c].allowed, conns[c].denied)]
        /\ UNCHANGED <<hostVars, builderVars, lockVars, matcherVars, storeVars, managerVars, upstream, hconns, accept_errors, last>>

\* request.connect().await?: the upstream connection is attempted
SocksConnect ==
    \E c \in 1..Len(conns) :
        /\ conns[c].pc = "connecting"
        /\ upstream' = upstream \cup {c}
        /\ \E ok \in BOOLEAN :
              conns' = [conns EXCEPT ![c].pc = IF ok THEN "done" ELSE "connect_error"]
        /\ UNCHANGED <<hostVars, builderVars, lockVars, matcherVars, storeVars, managerVars, hconns, accept_errors, last>>

\* ---------------------------------------------------------------------------
\* Operations of the ViolationStore, called from several threads. Each
\* critical section (one lock().unwrap() scope) is one step.
\* ---------------------------------------------------------------------------
\* an append, or a clear, by thread t falls inside the calls in flight
Overlapped(t, th, isClear) ==
    [u \in Threads |->
        IF u # t /\ th[u].pc # "idle"
        THEN IF isClear THEN [th[u] EXCEPT !.cleared = TRUE]
                        ELSE [th[u] EXCEPT !.appended = TRUE]
        ELSE th[u]]

InFlight == Cardinality({t \in Threads : thr[t].pc = "add_push"})

\* add_violation(&self, violation) is entered
AddBegin(t) ==
    \E v \in Violations :
        /\ thr[t].pc = "idle"
        /\ Len(history) + InFlight < MaxAdds
        /\ thr' = [thr EXCEPT ![t] =
                     [pc |-> "add_push", v |-> <<v>>, id |-> 0,
                      prev |-> Len(violations), nsubs |-> Len(subscribers),
                      appended |-> FALSE, cleared |-> FALSE,
                      ret |-> thr[t].ret]]
        /\ UNCHANGED <<hostVars, builderVars, lockVars, matcherVars, managerVars, connVars, last, violations,
                       subscribers, history, cleared_upto>>

\* mutant: the push writes at the length read when the call was entered, as
\* it would without the mutex around the first block
AddPush_Lossy(t) ==
    /\ thr[t].pc = "add_push"
    /\ violations' = Append(SubSeq(violations, 1, thr[t].prev), thr[t].v[1])
    /\ history' = Append(history, thr[t].v[1])
    /\ thr' = [Overlapped(t, thr, FALSE) EXCEPT ![t].pc = "add_notify",
                                         ![t].id = Len(history) + 1]
    /\ UNCHANGED <<hostVars, builderVars, lockVars, matcherVars, managerVars, connVars, last, subscribers,
                   cleared_upto>>

\* add_violation, first block: violations.push(violation.clone())
AddPush(t) ==
    /\ thr[t].pc = "add_push"
    /\ violations' = Append(violations, thr[t].v[1])
    /\ history' = Append(history, thr[t].v[1])
    /\ thr' = [Overlapped(t, thr, FALSE) EXCEPT ![t].pc = "add_notify",
                                         ![t].id = Len(history) + 1]
    /\ UNCHANGED <<hostVars, builderVars, lockVars, matcherVars, managerVars, connVars, last, subscribers,
                   cleared_upto>>

\* mutant: the subscribers are not invoked
AddNotify_Silent(t) ==
    /\ thr[t].pc = "add_notify"
    /\ thr' = [thr EXCEPT ![t] = ThreadIdle(thr[t].ret)]
    /\ UNCHANGED <<hostVars, builderVars, lockVars, matcherVars, managerVars, connVars, last, violations,
                   subscribers, history, cleared_upto>>

\* add_violation, second block: every subscriber is called with &violation,
\* in the order of the list, under the subscribers lock; then the call returns
AddNotify(t) ==
    /\ thr[t].pc = "add_notify"
    /\ subscribers' = [i \in 1..Len(subscribers) |->
                         Append(subscribers[i], [v |-> thr[t].v[1], id |-> thr[t].id])]
    /\ thr' = [thr EXCEPT ![t] = ThreadIdle(thr[t].ret)]
    /\ UNCHANGED <<hostVars, builderVars, lockVars, matcherVars, managerVars, connVars, last, violations,
                   history, cleared_upto>>

\* subscribe(&self, callback): subscribers.push(Box::new(callback))
Subscribe(t) ==
    /\ t \in Callers
    /\ thr[t].pc = "idle"
    /\ Len(subscribers) < MaxSubs
    /\ subscribers' = Append(subscribers, <<>>)
    /\ UNCHANGED <<hostVars, builderVars, lockVars, matcherVars, managerVars, connVars, last, violations, thr,
                   history, cleared_upto>>

\* get_violations(&self): violations.clone()
GetViolations(t) ==
    /\ t \in Callers
    /\ thr[t].pc = "idle"
    /\ thr' = [thr EXCEPT ![t].ret =
                 [op |-> "get_violations", list |-> violations, n |-> 0]]
    /\ UNCHANGED <<hostVars, builderVars, lockVars, matcherVars, managerVars, connVars, last, violations,
                   subscribers, history, cleared_upto>>

\* iter().filter(|v| v.violation_type == violation_type).cloned().collect()
FilterByType(list, violation_type) ==
    LET keep(v) == v.violation_type = violation_type
    IN SelectSeq(list, keep)

\* mutant: the filter of get_violations_by_type is dropped
GetViolationsByType_All(t) ==
    \E k \in ViolationTypes :
        /\ t \in Callers
        /\ thr[t].pc = "idle"
        /\ thr' = [thr EXCEPT ![t].ret =
                     [op |-> k, list |-> violations, n |-> 0]]
        /\ UNCHANGED <<hostVars, builderVars, lockVars, matcherVars, managerVars, connVars, last, violations,
                       subscribers, history, cleared_upto>>

\* get_violations_by_type(&self, violation_type); the returned record names
\* the type asked for
GetViolationsByType(t) ==
    \E k \in ViolationTypes :
        /\ t \in Callers
        /\ thr[t].pc = "idle"
        /\ thr' = [thr EXCEPT ![t].ret =
                     [op |-> k, list |-> FilterByType(violations, k), n |-> 0]]
        /\ UNCHANGED <<hostVars, builderVars, lockVars, matcherVars, managerVars, connVars, last, violations,
                       subscribers, history, cleared_upto>>

\* count(&self): violations.len()
Count(t) ==
    /\ t \in Callers
    /\ thr[t].pc = "idle"
    /\ thr' = [thr EXCEPT ![t].ret =
                 [op |-> "count", list |-> <<>>, n |-> Len(violations)]]
    /\ UNCHANGED <<hostVars, builderVars, lockVars, matcherVars, managerVars, connVars, last, violations,
                   subscribers, history, cleared_upto>>

\* mutant: clear also empties the subscriber list
Clear_DropsSubscribers(t) ==
    /\ t \in Callers
    /\ thr[t].pc = "idle"
    /\ violations' = <<>>
    /\ subscribers' = <<>>
    /\ cleared_upto' = Len(history)
    /\ thr' = Overlapped(t, thr, TRUE)
    /\ UNCHANGED <<hostVars, builderVars, lockVars, matcherVars, managerVars, connVars, last, history>>

\* clear(&self): violations.clear()
Clear(t) ==
    /\ t \in Callers
    /\ thr[t].pc = "idle"
    /\ violations' = <<>>
    /\ cleared_upto' = Len(history)
    /\ thr' = Overlapped(t, thr, TRUE)
    /\ UNCHANGED <<hostVars, builderVars, lockVars, matcherVars, managerVars, connVars, last, subscribers, history>>

\* a manager just constructed, with its empty store; the starting point of
\* the runs that exercise the store or the proxies on their own
StoreInit ==
    /\ MatcherIdle
    /\ BuilderIdle
    /\ HostIdle
    /\ ManagerNew([network |-> [allowed_domains |-> <<>>, denied_domains |-> <<>>],
                   docker |-> <<>>], "linux")

StoreNext ==
    \E t \in Threads :
        \/ AddBegin(t)
        \/ AddPush(t)
        \/ AddNotify(t)
        \/ Subscribe(t)
        \/ GetViolations(t)
        \/ GetViolationsByType(t)
        \/ Count(t)
        \/ Clear(t)

SpecStore == StoreInit /\ [][StoreNext]_vars

\* ---------------------------------------------------------------------------
\* HTTP connections (src/proxy/http_proxy.rs)
\* ---------------------------------------------------------------------------

H_b_a_port == P_b_a \o <<":", "8", "0">>
\* the requests clients send: the method, the host of the request URI if it
\* has an authority, and the Host header if present
HttpRequests ==
    [method : {"GET", "CONNECT"},
     uri_host : {<<>>, Some(H_a_a)},
     host_header : {<<>>, Some(H_b_a_port), Some(H_a_a)}]

\* h.split(':').next(): the text before the first ':'
RECURSIVE BeforeColon(_)
BeforeColon(h) ==
    IF h = <<>> \/ h[1] = ":" THEN <<>>
    ELSE <<h[1]>> \o BeforeColon(Tail(h))

\* mutant: the Host header is evaluated with its port suffix
request_host_KeepsPort(req) ==
    IF IsSome(req.uri_host) THEN Unwrap(req.uri_host)
    ELSE IF IsSome(req.host_header) THEN Unwrap(req.host_header)
    ELSE <<>>

\* req.uri().host().or_else(Host header before ':').unwrap_or("")
request_host(req) ==
    IF IsSome(req.uri_host) THEN Unwrap(req.uri_host)
    ELSE IF IsSome(req.host_header) THEN BeforeColon(Unwrap(req.host_header))
    ELSE <<>>

\* the response handle_request returns, its body as the pieces of the format
\* string, and whether the handler opened a connection to the target
HttpResponse(status, body, connected) ==
    [status |-> status, body |-> body, connected |-> connected]

\* mutant: an allowed CONNECT opens the tunnel to the target
handle_request_Tunnel(req, allowed, denied) ==
    LET host == request_host(req)
    IN IF ~Http_is_domain_allowed(host, allowed, denied)
       THEN HttpResponse(403, <<"Access to ", host, " is blocked by sandbox policy">>,
                         FALSE)
       ELSE IF req.method = "CONNECT" THEN HttpResponse(200, <<>>, TRUE)
       ELSE HttpResponse(200, <<"Proxied request">>, FALSE)

\* handle_request: 403 when the policy denies the host; else 200 with an
\* empty body for CONNECT and 200 "Proxied request" for every other method.
\* No branch connects to the target.
handle_request(req, allowed, denied) ==
    LET host == request_host(req)
    IN IF ~Http_is_domain_allowed(host, allowed, denied)
       THEN HttpResponse(403, <<"Access to ", host, " is blocked by sandbox policy">>,
                         FALSE)
       ELSE IF req.method = "CONNECT" THEN HttpResponse(200, <<>>, FALSE)
       ELSE HttpResponse(200, <<"Proxied request">>, FALSE)

\* HttpProxy::new(allowed, denied) then start(): a proxy used on its own, as
\* in tests::test_proxy_creation. A list that does not compile or a failed
\* bind gives an error and no accept loop. A run starts one proxy of each
\* kind this way, as one manager does.
HttpProxyStart ==
    \E n \in NetworkConfigs :
    \E p \in {HttpProxy_new(n.allowed_domains, n.denied_domains)} :
    \E port \in BindChoices(BoundPorts) :
        /\ ~\E t \in tasks : t.kind = "http"
        /\ tasks' = IF p.ok /\ port # 0
                    THEN tasks \cup {AcceptTask("http", p, port)} ELSE tasks
        /\ UNCHANGED <<hostVars, builderVars, lockVars, matcherVars, storeVars, config, platform, initialized,
                       http_proxy, socks_proxy, connVars, last>>

\* SocksProxy::new(allowed, denied) then start()
SocksProxyStart ==
    \E n \in NetworkConfigs :
    \E p \in {SocksProxy_new(n.allowed_domains, n.denied_domains)} :
    \E port \in BindChoices(BoundPorts) :
        /\ ~\E t \in tasks : t.kind = "socks"
        /\ tasks' = IF p.ok /\ port # 0
                    THEN tasks \cup {AcceptTask("socks", p, port)} ELSE tasks
        /\ UNCHANGED <<hostVars, builderVars, lockVars, matcherVars, storeVars, config, platform, initialized,
                       http_proxy, socks_proxy, connVars, last>>

\* the accept loop of an HTTP task hands a new connection to its own task
HttpAcceptOn(t) ==
        /\ t.kind = "http"
        /\ Len(conns) + Len(hconns) < MaxConns
        /\ hconns' = Append(hconns, [pc |-> "serving", port |-> t.port,
                                     allowed |-> t.allowed, denied |-> t.denied,
                                     req |-> <<>>, resp |-> <<>>])
        /\ UNCHANGED <<hostVars, builderVars, lockVars, matcherVars, storeVars, managerVars, conns, upstream,
                       accept_errors, last>>

HttpAccept == \E t \in tasks : HttpAcceptOn(t)

\* serve_connection calls the service for the next request of a connection;
\* the connection keeps its last request and the response to it
HttpRequest ==
    \E c \in 1..Len(hconns) : \E req \in HttpRequests :
        /\ hconns[c].pc = "serving"
        /\ hconns' = [hconns EXCEPT
                         ![c].req = Some(req),
                         ![c].resp = Some(handle_request(req, hconns[c].allowed,
                                                         hconns[c].denied))]
        /\ UNCHANGED <<hostVars, builderVars, lockVars, matcherVars, storeVars, managerVars, conns, upstream,
                       accept_errors, last>>

\* serve_connection ends: the client closed, or an error that
\* handle_connection returns as SandboxError::Proxy and the task logs; the
\* task is over and its last exchange with it
HttpConnectionEnd ==
    \E c \in 1..Len(hconns) : \E how \in {"closed", "proxy_error"} :
        /\ hconns[c].pc = "serving"
        /\ hconns' = [hconns EXCEPT ![c].pc = how, ![c].req = <<>>,
                                    ![c].resp = <<>>]
        /\ UNCHANGED <<hostVars, builderVars, lockVars, matcherVars, storeVars, managerVars, conns, upstream,
                       accept_errors, last>>

\* mutant: an accept error ends the accept loop
AcceptError_Breaks ==
    \E t \in tasks :
        /\ accept_errors' = accept_errors \cup {t.port}
        /\ tasks' = tasks \ {t}
        /\ UNCHANGED <<hostVars, builderVars, lockVars, matcherVars, storeVars, config, platform, initialized,
                       http_proxy, socks_proxy, conns, upstream, hconns, last>>

\* listener.accept() / server.accept() returns Err: the loop logs a warning
\* and goes on to the next accept
AcceptError ==
    \E t \in tasks :
        /\ accept_errors' = accept_errors \cup {t.port}
        /\ UNCHANGED <<hostVars, builderVars, lockVars, matcherVars, storeVars, managerVars, conns, upstream,
                       hconns, last>>

\* the manager alone: its four operations under every configuration
Next ==
    \/ Initialize
    \/ WrapCommand
    \/ Execute
    \/ Reset

Spec == Init /\ [][Next]_vars

\* the proxies at work: a manager without container configuration is
\* initialized and reset while SOCKS5 clients connect
SocksInit ==
    /\ MatcherIdle
    /\ BuilderIdle
    /\ HostIdle
    /\ \E n \in NetworkConfigs : ManagerNew([network |-> n, docker |-> <<>>], "linux")

SocksNext ==
    \/ Initialize
    \/ Reset
    \/ SocksAccept
    \/ SocksUpgrade
    \/ SocksDecide
    \/ SocksConnect

SpecSocks == SocksInit /\ [][SocksNext]_vars

\* ===========================================================================
\* Claims about the domain policy matcher (checked under SpecMatcher)
\* ===========================================================================
\* pattern p, compiled by the HTTP proxy / by the SOCKS5 proxy, matches host h
HttpMatches(p, h) ==
    LET re == Http_domain_to_regex(p) IN re.ok /\ is_match(re.items, h)
SocksMatches(p, h) ==
    LET re == Socks_domain_to_regex(p) IN re.ok /\ is_match(re.items, h)

HttpSomeMatch(list, h) == \E i \in 1..Len(list) : HttpMatches(list[i], h)
SocksSomeMatch(list, h) == \E i \in 1..Len(list) : SocksMatches(list[i], h)

Decided(out) == out \in {"allow", "deny"}

\* C1: denial wins: when some pattern of the deny list matches the host, the
\* decision of the HTTP matcher and of the SOCKS5 matcher is "deny", whatever
\* the allow list contains.
C1_DenialWins ==
    /\ (Decided(httpOut) /\ HttpSomeMatch(input.denied, input.host))
          => httpOut = "deny"
    /\ (Decided(socksOut) /\ SocksSomeMatch(input.denied, input.host))
          => socksOut = "deny"

\* C1 witness: a host matched by an allow pattern and by a deny pattern has
\* been decided by both matchers.
C1_Witness ==
    /\ input.host = P_evil_example_com
    /\ input.allowed = <<P_star_example_com>>
    /\ input.denied = <<P_evil_example_com>>
    /\ HttpSomeMatch(input.allowed, input.host)
    /\ SocksSomeMatch(input.denied, input.host)
    /\ httpOut = "deny" /\ socksOut = "deny"

\* C2: default-allow: with an empty allow list the decision is "allow" exactly
\* when no deny pattern matches the host; with both lists empty every host is
\* allowed, and blocked.com is denied under the deny list [blocked.com].
C2_DefaultAllow ==
    /\ (Decided(httpOut) /\ input.allowed = <<>>)
          => (httpOut = "allow" <=> ~HttpSomeMatch(input.denied, input.host))
    /\ (Decided(socksOut) /\ input.allowed = <<>>)
          => (socksOut = "allow" <=> ~SocksSomeMatch(input.denied, input.host))
    /\ (input.allowed = <<>> /\ input.denied = <<>>)
          => (httpOut \in {"none", "allow"} /\ socksOut \in {"none", "allow"})
    /\ (input = [host |-> P_blocked_com, allowed |-> <<>>, denied |-> <<P_blocked_com>>])
          => (httpOut \in {"none", "deny"} /\ socksOut \in {"none", "deny"})

\* C2 witness: blocked.com has been decided under an empty allow list and the
\* deny list [blocked.com].
C2_Witness ==
    /\ input = [host |-> P_blocked_com, allowed |-> <<>>, denied |-> <<P_blocked_com>>]
    /\ httpOut = "deny" /\ socksOut = "deny"

\* the policy of the unit test test_domain_matching
TestPolicy(h) ==
    [host |-> h, allowed |-> <<P_star_example_com, P_google_com>>,
     denied |-> <<P_evil_example_com>>]

\* C3: default-deny: with a non-empty allow list the decision is "allow" if and
\* only if some allow pattern matches the host and no deny pattern does; under
\* allowed=[*.example.com, google.com], denied=[evil.example.com] the hosts
\* api.example.com and google.com are allowed, evil.example.com and other.com
\* are denied.
C3_DefaultDeny ==
    /\ (Decided(httpOut) /\ input.allowed # <<>>)
          => (httpOut = "allow" <=>
                 /\ HttpSomeMatch(input.allowed, input.host)
                 /\ ~HttpSomeMatch(input.denied, input.host))
    /\ (Decided(socksOut) /\ input.allowed # <<>>)
          => (socksOut = "allow" <=>
                 /\ SocksSomeMatch(input.allowed, input.host)
                 /\ ~SocksSomeMatch(input.denied, input.host))
    /\ (input \in {TestPolicy(H_api_example_com), TestPolicy(P_google_com)})
          => (httpOut \in {"none", "allow"} /\ socksOut \in {"none", "allow"})
    /\ (input \in {TestPolicy(P_evil_example_com), TestPolicy(H_other_com)})
          => (httpOut \in {"none", "deny"} /\ socksOut \in {"none", "deny"})

\* C3 witness: api.example.com has been allowed under the test policy, whose
\* second allow pattern (google.com) does not match it.
C3_Witness ==
    /\ input = TestPolicy(H_api_example_com)
    /\ httpOut = "allow" /\ socksOut = "allow"

\* C4 (as claimed): a pattern without `*`, alone in the allow list with an
\* empty deny list, allows a host only when the host is exactly the pattern.
C4_ExactOnly ==
    \A out \in {httpOut, socksOut} :
        ( /\ Len(input.allowed) = 1
          /\ input.denied = <<>>
          /\ \A i \in 1..Len(input.allowed[1]) : input.allowed[1][i] # "*"
          /\ out = "allow" )
        => input.host = input.allowed[1]

\* the wildcard semantics the specification gives domain patterns: `*` is any
\* run of characters, every other character is itself, the whole host is matched
RECURSIVE GlobMatch(_, _)
GlobMatch(p, h) ==
    IF p = <<>> THEN h = <<>>
    ELSE IF Head(p) = "*"
         THEN GlobMatch(Tail(p), h) \/ (h # <<>> /\ GlobMatch(p, Tail(h)))
         ELSE h # <<>> /\ Head(h) = Head(p) /\ GlobMatch(Tail(p), Tail(h))

\* a pattern of host-name characters, dots and wildcards only
RegexSyntaxChars == {"?", "(", ")", "\\", "+", "|", "[", "]", "{", "}", "^", "$"}
IsGlobPattern(p) == \A i \in 1..Len(p) : p[i] \notin RegexSyntaxChars

\* C5: wildcard semantics: a compiled pattern of host-name characters, dots and
\* `*` matches exactly the hosts that equal it with each `*` replaced by some
\* run of characters (dots included, the empty run included), anchored at both
\* ends. So *.example.com, alone in the allow list, allows api.example.com and
\* a.b.example.com and does not allow example.com nor
\* api.example.com.evil.org; alone in the deny list a pattern denies exactly
\* the hosts it matches.
C5_Wildcard ==
    \A out \in {httpOut, socksOut} :
        /\ ( /\ Decided(out)
             /\ Len(input.allowed) = 1 /\ input.denied = <<>>
             /\ IsGlobPattern(input.allowed[1]) )
           => (out = "allow" <=> GlobMatch(input.allowed[1], input.host))
        /\ ( /\ Decided(out)
             /\ input.allowed = <<>> /\ Len(input.denied) = 1
             /\ IsGlobPattern(input.denied[1]) )
           => (out = "deny" <=> GlobMatch(input.denied[1], input.host))
        /\ ( /\ Decided(out)
             /\ input.allowed = <<P_star_example_com>> /\ input.denied = <<>> )
           => (out = "allow" <=> input.host \in {H_api_example_com, H_a_b_example_com,
                                                  P_evil_example_com})

\* C5 witness: a.b.example.com (the wildcard spans a dot) has been allowed by
\* *.example.com.
C5_Witness ==
    /\ input = [host |-> H_a_b_example_com, allowed |-> <<P_star_example_com>>,
                denied |-> <<>>]
    /\ httpOut = "allow" /\ socksOut = "allow"

\* the HTTP proxy at work
HttpNext ==
    \/ HttpProxyStart
    \/ HttpAccept
    \/ HttpRequest
    \/ HttpConnectionEnd

SpecHttp == StoreInit /\ [][HttpNext]_vars

\* both proxies at work, with accept errors and failing handlers
LoopsNext ==
    \/ HttpProxyStart
    \/ SocksProxyStart
    \/ AcceptError
    \/ HttpAccept
    \/ HttpRequest
    \/ HttpConnectionEnd
    \/ SocksAccept
    \/ SocksUpgrade
    \/ SocksDecide
    \/ SocksConnect

SpecLoops == StoreInit /\ [][LoopsNext]_vars

\* ===========================================================================
\* Claims about the SOCKS5 handler (checked under SpecSocks)
\* ===========================================================================
\* the policy, read as the specification defines it, allows the target of
\* connection c: no deny pattern of the configuration matches its textual
\* form, and the allow list is empty or one of its patterns matches
PolicyAllows(c) ==
    LET cn == conns[c]
        host == socks_target_host(Unwrap(cn.target))
        net == config.network
    IN /\ IsSome(cn.target)
       /\ ~\E i \in 1..Len(net.denied_domains) : GlobMatch(net.denied_domains[i], host)
       /\ \/ net.allowed_domains = <<>>
          \/ \E i \in 1..Len(net.allowed_domains) : GlobMatch(net.allowed_domains[i], host)

\* C6: a SOCKS5 connection whose target the policy denies ends with an error
\* and no upstream connect is ever attempted for it; a connect is attempted
\* only for a connection whose target the policy has allowed.
C6_DeniedNeverConnects ==
    \A c \in 1..Len(conns) :
        /\ c \in upstream => PolicyAllows(c)
        /\ conns[c].pc \in {"connecting", "done", "connect_error"} => PolicyAllows(c)
        /\ (IsSome(conns[c].target) /\ ~PolicyAllows(c) /\ conns[c].pc # "requested")
              => (conns[c].pc = "blocked" /\ c \notin upstream)

\* C6 witness: one connection was blocked without an upstream attempt while
\* another one, allowed, went on to connect.
C6_Witness ==
    \E c, d \in 1..Len(conns) :
        /\ conns[c].pc = "blocked" /\ c \notin upstream
        /\ conns[d].pc = "done" /\ d \in upstream
        /\ config.network.allowed_domains # <<>>

\* ===========================================================================
\* Claims about the manager (checked under Spec)
\* ===========================================================================
\* C7 (as claimed): execute called while the manager is Uninitialized fails
\* with an Execution error under every configuration and takes no outward
\* step; an execute that returns Ok ran in state Initialized. (execute takes
\* &self: the state it ran in is the state it leaves.)
C7_ExecuteGate ==
    /\ (last.op = "execute" /\ ~initialized)
          => (last.res = ErrExecution /\ last.effects = <<>>)
    /\ (last.op = "execute" /\ last.res = "Ok") => initialized

\* C8: wrap_command called while the manager is Uninitialized returns an
\* Execution error under every configuration, a container configuration
\* included, builds no wrapped invocation and leaves the state, both handles
\* and the running tasks as they were.
C8_WrapGate ==
    [][ (WrapCommand /\ ~initialized)
          => /\ last'.op = "wrap_command"
             /\ last'.res = ErrExecution
             /\ last'.wrapped = <<>>
             /\ last'.effects = <<>>
             /\ UNCHANGED <<initialized, http_proxy, socks_proxy, tasks>> ]_vars

\* C8 witness: wrap_command has returned the Execution error on an
\* uninitialized manager that has a container configuration.
C8_Witness ==
    /\ last.op = "wrap_command"
    /\ ~initialized
    /\ IsSome(config.docker)
    /\ last.res = ErrExecution
    /\ last.wrapped = <<>>

\* C9 (as claimed): after a reset() that dropped both proxy handles has
\* returned, both proxies are torn down: no accept loop started by the manager
\* is running and no port it bound is still bound (a handle that is None
\* means a proxy that is not running).
C9_ResetStopsProxies ==
    (last.op = "reset" /\ last.effects = <<"drop_http_proxy", "drop_socks_proxy">>)
        => /\ http_proxy = <<>> /\ socks_proxy = <<>>
           /\ tasks = {}
           /\ BoundPorts = {}

\* C10: reset() can be called in every state and returns Ok; after it the
\* manager is Uninitialized and both handles are None; a reset that follows a
\* reset changes nothing of the manager.
C10_ResetIdempotent ==
    /\ [](ENABLED Reset)
    /\ [][ Reset
            => /\ last'.op = "reset" /\ last'.res = "Ok"
               /\ ~initialized'
               /\ http_proxy' = <<>>
               /\ socks_proxy' = <<>>
               /\ last.op = "reset" => UNCHANGED <<managerVars, connVars>> ]_vars

\* C10 witness: reset has been called twice in a row on a manager that had
\* been initialized.
C10_Witness ==
    /\ last.op = "reset" /\ last.again /\ last.res = "Ok"
    /\ tasks # {}
    /\ ~initialized /\ http_proxy = <<>> /\ socks_proxy = <<>>

\* C11: initialize() on an Initialized manager is a no-op: it returns Ok,
\* binds no port and spawns no accept loop, and the two proxy handles (and
\* with them their ports), the initialized flag and the running accept loops
\* are the same after the call as before it.
C11_InitializeIdempotent ==
    [][(Initialize /\ initialized) =>
         /\ last'.op = "initialize" /\ last'.res = "Ok"
         /\ last'.effects = <<>>
         /\ UNCHANGED <<managerVars, connVars>>]_vars

C11_Witness ==
    /\ last.op = "initialize" /\ last.res = "Ok" /\ last.effects = <<>>
    /\ last.after = <<"initialize", "Ok">>
    /\ initialized /\ IsSome(http_proxy) /\ IsSome(socks_proxy)

\* the error initialize() returns for the manager's configuration when a step
\* of it fails: Config when a domain pattern does not compile, else Io
PatternsCompile ==
    /\ HttpProxy_new(config.network.allowed_domains, config.network.denied_domains).ok
    /\ SocksProxy_new(config.network.allowed_domains, config.network.denied_domains).ok

OsLevelSuccess ==
    /\ last.res = "Ok"
    /\ \/ last.op = "wrap_command"
       \/ last.op = "execute" /\ ~IsSome(config.docker)

C13_Ordering ==
    /\ [](OsLevelSuccess =>
            /\ initialized
            /\ IsSome(http_proxy) /\ IsSome(socks_proxy)
            /\ Unwrap(http_proxy).port # 0 /\ Unwrap(socks_proxy).port # 0
            /\ \E t \in tasks : t.kind = "http" /\ t.port = Unwrap(http_proxy).port
            /\ \E t \in tasks : t.kind = "socks" /\ t.port = Unwrap(socks_proxy).port
            /\ IsSome(last.wrapped)
            /\ Unwrap(last.wrapped).via # "docker" =>
                  /\ Unwrap(last.wrapped).http_port = Unwrap(http_proxy).port
                  /\ Unwrap(last.wrapped).socks_port = Unwrap(socks_proxy).port)
    /\ [][/\ (~initialized /\ initialized') =>
               (Initialize /\ last'.op = "initialize" /\ last'.res = "Ok"
                /\ last'.effects = <<"bind_http", "spawn_http_accept",
                                     "bind_socks", "spawn_socks_accept">>)
          /\ Reset => ~initialized']_vars

C13_Witness ==
    /\ last.op = "execute" /\ last.res = "Ok" /\ ~IsSome(config.docker)
    /\ IsSome(last.wrapped)
    /\ Unwrap(last.wrapped).http_port = Unwrap(http_proxy).port
    /\ Unwrap(last.wrapped).socks_port = Unwrap(socks_proxy).port
    /\ last.after = <<"initialize", "Ok">>
    /\ \E t \in tasks : t.port \notin {Unwrap(http_proxy).port, Unwrap(socks_proxy).port}

\* ===========================================================================
\* Claims about the ViolationStore (checked under SpecStore)
\* ===========================================================================
\* what holds of the log and of the subscribers when the add_violation call
\* of thread t returns: the type query contains v, and every subscriber
\* registered before the call got exactly one invocation for it, with v
Recorded(t) ==
    LET v == thr[t].v[1]
        byType == FilterByType(violations', v.violation_type)
    IN /\ \E i \in 1..Len(byType) : byType[i] = v
       /\ \A sub \in 1..thr[t].nsubs :
             /\ ~\E j \in 1..Len(subscribers[sub]) : subscribers[sub][j].id = thr[t].id
             /\ Cardinality({j \in 1..Len(subscribers'[sub]) :
                                subscribers'[sub][j].id = thr[t].id}) = 1
             /\ \A j \in 1..Len(subscribers'[sub]) :
                   subscribers'[sub][j].id = thr[t].id => subscribers'[sub][j].v = v

\* C14 (as claimed): when add_violation(v) returns and no clear() ran
\* concurrently, count() is the count at the time of the call plus one,
\* get_violations_by_type(v.kind) contains v and every subscriber registered
\* before the call was invoked exactly once for it with v.
C14_RecordAsClaimed ==
    [][\A t \in Threads :
         (AddNotify(t) /\ ~thr[t].cleared) =>
             (Len(violations') = thr[t].prev + 1 /\ Recorded(t))]_vars

\* C14 (amended): the same, where the count is the count at the time of the
\* call plus one when no clear() and no append of another thread fell inside
\* the call; with appends of other threads inside the call the count has
\* grown by more than one.
C14_Record ==
    [][\A t \in Threads :
         (AddNotify(t) /\ ~thr[t].cleared) =>
             /\ Recorded(t)
             /\ ~thr[t].appended => Len(violations') = thr[t].prev + 1
             /\ thr[t].appended => Len(violations') > thr[t].prev + 1]_vars

\* both threads have recorded a violation and returned, the subscriber
\* registered before them was invoked for each, and the count() the caller
\* then asked for is two
C14_Witness ==
    /\ thr[1].pc = "idle" /\ thr[2].pc = "idle"
    /\ Len(history) = 2 /\ Len(violations) = 2
    /\ Len(subscribers) = 1 /\ Len(subscribers[1]) = 2
    /\ subscribers[1][1].id # subscribers[1][2].id
    /\ thr[1].ret.op = "count" /\ thr[1].ret.n = 2

\* list a is an initial part of list b
IsPrefix(a, b) == Len(a) <= Len(b) /\ \A i \in 1..Len(a) : a[i] = b[i]

\* C15: clear() empties the log, so that count() is 0, and does not touch
\* the subscriber list; no operation of the store removes a subscriber or
\* takes back an invocation; every add_violation invokes every subscriber
\* registered at that time, whether or not a clear() came before.
C15_ClearKeepsSubscribers ==
    [][/\ \A t \in Threads :
            Clear(t) => (Len(violations') = 0 /\ subscribers' = subscribers)
       /\ Len(subscribers') >= Len(subscribers)
       /\ \A i \in 1..Len(subscribers) : IsPrefix(subscribers[i], subscribers'[i])
       /\ \A t \in Threads :
            AddNotify(t) =>
                \A i \in 1..Len(subscribers) :
                    subscribers'[i] =
                        Append(subscribers[i], [v |-> thr[t].v[1], id |-> thr[t].id])]_vars

\* a subscriber invoked for a violation recorded before a clear() and again
\* for one recorded after it
C15_Witness ==
    /\ cleared_upto = 1
    /\ Len(subscribers) = 1
    /\ Len(subscribers[1]) = 2
    /\ subscribers[1][1].id = 1 /\ subscribers[1][2].id = 2
    /\ Len(violations) = 1

\* the violations of a list that have the type k, in the order of the list
RECURSIVE OfType(_, _)
OfType(list, k) ==
    IF list = <<>> THEN <<>>
    ELSE IF list[1].violation_type = k
         THEN <<list[1]>> \o OfType(Tail(list), k)
         ELSE OfType(Tail(list), k)

\* the violations appended since the last clear(), in the order of the appends
SinceClear == SubSeq(history, cleared_upto + 1, Len(history))

\* C16: get_violations() returns the violations appended since the last
\* clear() in the order of their appends; get_violations_by_type(k) returns
\* those of them whose type is k, in the same relative order; a list a
\* thread got back is not changed by a later add_violation or clear().
C16_QueryOrder ==
    [][\A t \in Threads :
         /\ GetViolations(t) => thr'[t].ret.list = SinceClear
         /\ GetViolationsByType(t) =>
                thr'[t].ret.list = OfType(SinceClear, thr'[t].ret.op)
         /\ \A u \in Threads :
                (AddBegin(u) \/ AddPush(u) \/ AddNotify(u) \/ Clear(u)) =>
                    thr'[t].ret = thr[t].ret]_vars

\* a type query answered with one of two logged violations, still held
\* after the log was cleared
C16_Witness ==
    /\ thr[1].ret.op = "Network"
    /\ thr[1].ret.list = <<[violation_type |-> "Network", target |-> "evil.com"]>>
    /\ Len(history) = 2
    /\ history[1].violation_type = "FilesystemWrite"
    /\ cleared_upto = 2 /\ violations = <<>>

\* ===========================================================================
\* Claims about the HTTP proxy and the accept loops (SpecHttp, SpecLoops)
\* ===========================================================================
\* the policy, read as the specification defines it, allows host under the
\* pattern lists n
GlobPolicyAllows(n, host) ==
    /\ ~\E i \in 1..Len(n.denied_domains) : GlobMatch(n.denied_domains[i], host)
    /\ \/ n.allowed_domains = <<>>
       \/ \E i \in 1..Len(n.allowed_domains) : GlobMatch(n.allowed_domains[i], host)

\* the pattern lists the proxy of HTTP connection c was constructed from
HttpPolicyOf(c) ==
    CHOOSE n \in NetworkConfigs :
        \E p \in {HttpProxy_new(n.allowed_domains, n.denied_domains)} :
            /\ p.ok
            /\ p.allowed_domains = hconns[c].allowed
            /\ p.denied_domains = hconns[c].denied

\* C17: every request whose resolved host the policy denies, CONNECT
\* included, is answered 403 with the policy-violation body; an allowed
\* CONNECT is answered 200 with an empty body; an allowed request of another
\* method is answered 200 with the locally generated body; the handler never
\* opens a connection to the target.
C17_HttpDecision ==
    \A c \in 1..Len(hconns) :
        IsSome(hconns[c].resp) =>
            LET req == Unwrap(hconns[c].req)
                resp == Unwrap(hconns[c].resp)
                host == request_host(req)
            IN /\ ~resp.connected
               /\ IF ~GlobPolicyAllows(HttpPolicyOf(c), host)
                  THEN /\ resp.status = 403
                       /\ resp.body = <<"Access to ", host, " is blocked by sandbox policy">>
                  ELSE IF req.method = "CONNECT"
                  THEN resp.status = 200 /\ resp.body = <<>>
                  ELSE resp.status = 200 /\ resp.body = <<"Proxied request">>

\* under one policy a CONNECT to a denied host got 403 and a CONNECT to an
\* allowed host got 200 with an empty body
C17_Witness ==
    \E c, d \in 1..Len(hconns) :
        /\ IsSome(hconns[c].resp) /\ IsSome(hconns[d].resp)
        /\ hconns[c].port = hconns[d].port
        /\ Unwrap(hconns[c].req).method = "CONNECT"
        /\ request_host(Unwrap(hconns[c].req)) = P_b_a
        /\ Unwrap(hconns[c].resp).status = 403
        /\ Unwrap(hconns[d].req).method = "CONNECT"
        /\ Unwrap(hconns[d].resp).status = 200
        /\ Unwrap(hconns[d].resp).body = <<>>

\* C18: for every host and every pair of pattern lists the HTTP proxy's
\* matcher and the SOCKS5 proxy's matcher come to the same outcome: both
\* constructors reject the lists (Config error), or both accept them and
\* both allow the host, or both deny it. (Checked under SpecMatcher.)
C18_SamePolicy ==
    (httpOut # "none" /\ socksOut # "none") => httpOut = socksOut

\* both matchers have decided an input with an allow and a deny list, and
\* both allowed it
C18_Witness ==
    /\ httpOut = "allow" /\ socksOut = "allow"
    /\ input.allowed # <<>> /\ input.denied # <<>>
    /\ input.host # <<>>

\* connection i of list a is as it was, for every connection but at most one
OthersUntouched(a, b) ==
    /\ Len(b) >= Len(a)
    /\ \A i, j \in 1..Len(a) : (b[i] # a[i] /\ b[j] # a[j]) => i = j

\* C19: no step, an accept error and a failing handler included, ends an
\* accept loop; a step of one connection's handler leaves every other
\* connection of either proxy as it was; and at any time, whatever errors
\* came before, every accept loop is ready to accept the next connection
\* and hand it to a task of its own (as long as the run has connections left).
C19_LoopIsolation ==
    /\ [][/\ tasks \subseteq tasks'
          /\ OthersUntouched(conns, conns') /\ OthersUntouched(hconns, hconns')
          /\ (conns' # conns => hconns' = hconns)
          /\ (AcceptError => (conns' = conns /\ hconns' = hconns))]_vars
    /\ [](\A t \in tasks :
            Len(conns) + Len(hconns) < MaxConns =>
                IF t.kind = "http" THEN ENABLED HttpAcceptOn(t)
                                   ELSE ENABLED SocksAcceptOn(t))

\* after an accept error of the HTTP loop and a failed HTTP connection, a
\* later connection was accepted and served; likewise the SOCKS5 loop
\* logged an accept error and is still running
C19_Witness ==
    /\ Len(hconns) = 2
    /\ hconns[1].pc = "proxy_error"
    /\ hconns[2].pc = "serving" /\ IsSome(hconns[2].resp)
    /\ \E t \in tasks : t.kind = "http" /\ t.port \in accept_errors
    /\ \E t \in tasks : t.kind = "socks" /\ t.port \in accept_errors

\* ===========================================================================
\* Claims about the container strategy (checked under Spec)
\* ===========================================================================
\* C20: with a container configuration execute drives the container driver
\* alone: after connecting to the daemon it creates, starts, runs the command
\* and takes its exit code, then removes the container exactly when
\* auto_remove is set, in this order; it builds no wrapped invocation (no
\* profile builder, no proxy port) and spawns no local child; a step that
\* fails is the last one taken and the call returns a Docker error.
C20_ContainerOrder ==
    (last.op = "execute" /\ IsSome(config.docker)) =>
        LET auto_remove == Unwrap(config.docker).auto_remove
            full == <<"connect", "create", "start", "exec">>
                    \o (IF auto_remove THEN <<"remove">> ELSE <<>>)
        IN /\ IsPrefix(last.effects, full)
           /\ Len(last.effects) >= 1
           /\ last.wrapped = <<>>
           /\ last.res \in {"Ok", ErrDocker}
           /\ last.res = "Ok" => last.effects = full
           /\ (\E i \in 1..Len(last.effects) : last.effects[i] = "remove")
                 => auto_remove

\* a run of the full sequence with removal, a non-zero exit code returned,
\* on a manager that was never initialized
C20_Witness ==
    /\ last.op = "execute" /\ last.res = "Ok" /\ last.code = 1
    /\ IsSome(config.docker) /\ Unwrap(config.docker).auto_remove
    /\ last.effects = <<"connect", "create", "start", "exec", "remove">>
    /\ tasks = {}

C22_ExitCodeForwarding ==
    (last.op = "execute" /\ ~IsSome(config.docker)) =>
        /\ last.env.child = "exit0" => (last.res = "Ok" /\ last.code = 0)
        /\ last.env.child = "exit1" => (last.res = "Ok" /\ last.code = 1)
        /\ last.env.child \in {"exit0", "exit1"} => last.spawned # <<>>

\* the child exits with status 1 and execute returns Ok(1)
C22_Witness ==
    /\ last.op = "execute" /\ ~IsSome(config.docker)
    /\ last.env.child = "exit1" /\ last.res = "Ok" /\ last.code = 1
    /\ last.spawned # <<>>

\* ---------------------------------------------------------------------------
\* Platform builders (src/sandbox/linux.rs, src/sandbox/macos.rs)
\* ---------------------------------------------------------------------------
\* paths per list of the filesystem configuration
MaxFsLen == 1

\* a path is the sequence of its components; <<>> is "/"
Path_root == <<>>
Path_a == <<"a">>
Path_a_b == <<"a", "b">>
Path_home_s == <<"~", "s">>
Path_unset_x == <<"$UNSET", "x">>
Path_tmp == <<"tmp">>
Path_tmp_x == <<"tmp", "x">>
Path_dev == <<"dev">>
Path_proc == <<"proc">>
HomeDir == <<"home">>

\* expand_path: shellexpand::full replaces a leading ~ by the home directory
\* and $VAR by its value; a variable that is not set is a Config error
expand_path(path) ==
    IF path # <<>> /\ path[1] = "~"
    THEN [ok |-> TRUE, path |-> HomeDir \o Tail(path)]
    ELSE IF path # <<>> /\ path[1] = "$UNSET"
    THEN [ok |-> FALSE, path |-> <<>>]
    ELSE [ok |-> TRUE, path |-> path]

\* config.filesystem of the modelled builders
FilesystemConfigs ==
    [deny_read : ListsUpTo({Path_home_s}, MaxFsLen),
     allow_write : ListsUpTo({Path_a, Path_a_b, Path_home_s, Path_unset_x}, MaxFsLen),
     deny_write : ListsUpTo({Path_a, Path_a_b, Path_home_s}, MaxFsLen)]
\* what exists on disk when a builder runs
DiskStates == {{}, {Path_a}, {Path_a, Path_a_b, HomeDir \o <<"s">>}}
\* the (http_port, socks_port) pairs handed to set_proxy_ports
ProxyPortPairs == {<<1, 2>>, <<2, 1>>, <<2, 2>>}

\* one statement of a seatbelt profile: (action op) or (action op (filter arg))
Stmt(action, op, filter, port, path) ==
    [action |-> action, op |-> op, filter |-> filter, port |-> port, path |-> path]
AllowNetwork(port) == Stmt("allow", "network*", "remote ip localhost", port, <<>>)

\* the statements one loop of add_filesystem_rules pushes for a list
SubpathRules(action, op, list) ==
    [i \in 1..Len(list) |->
        Stmt(action, op, "subpath", 0, expand_path(list[i]).path)]
ExpandsAll(list) == \A i \in 1..Len(list) : expand_path(list[i]).ok

\* mutant: the deny-write statements are pushed before the allow-write ones
MacOS_add_filesystem_rules_DenyFirst(fs) ==
    IF ~(ExpandsAll(fs.deny_read) /\ ExpandsAll(fs.allow_write)
         /\ ExpandsAll(fs.deny_write))
    THEN [ok |-> FALSE, rules |-> <<>>]
    ELSE [ok |-> TRUE,
          rules |-> <<Stmt("allow", "file-read*", "none", 0, <<>>)>>
                    \o SubpathRules("deny", "file-read*", fs.deny_read)
                    \o SubpathRules("deny", "file-write*", fs.deny_write)
                    \o SubpathRules("allow", "file-write*", fs.allow_write)]

\* MacOSSandbox::add_filesystem_rules: allow file-read*, a deny file-read* per
\* deny_read path, an allow file-write* per allow_write path, a deny
\* file-write* per deny_write path; the first path that does not expand
\* returns the Config error
MacOS_add_filesystem_rules(fs) ==
    IF ~(ExpandsAll(fs.deny_read) /\ ExpandsAll(fs.allow_write)
         /\ ExpandsAll(fs.deny_write))
    THEN [ok |-> FALSE, rules |-> <<>>]
    ELSE [ok |-> TRUE,
          rules |-> <<Stmt("allow", "file-read*", "none", 0, <<>>)>>
                    \o SubpathRules("deny", "file-read*", fs.deny_read)
                    \o SubpathRules("allow", "file-write*", fs.allow_write)
                    \o SubpathRules("deny", "file-write*", fs.deny_write)]

\* mutant: the network is allowed without a filter
MacOS_generate_profile_OpenNetwork(self) ==
    LET fsr == MacOS_add_filesystem_rules(self.filesystem)
    IN IF ~fsr.ok THEN [ok |-> FALSE, profile |-> <<>>]
       ELSE [ok |-> TRUE,
             profile |->
                <<Stmt("version", "1", "none", 0, <<>>),
                  Stmt("deny", "default", "none", 0, <<>>),
                  Stmt("allow", "process*", "none", 0, <<>>),
                  Stmt("allow", "sysctl*", "none", 0, <<>>),
                  Stmt("allow", "mach*", "none", 0, <<>>),
                  Stmt("allow", "network*", "none", 0, <<>>)>>
                \o fsr.rules]

\* MacOSSandbox::generate_profile
MacOS_generate_profile(self) ==
    LET fsr == MacOS_add_filesystem_rules(self.filesystem)
    IN IF ~fsr.ok THEN [ok |-> FALSE, profile |-> <<>>]
       ELSE [ok |-> TRUE,
             profile |->
                <<Stmt("version", "1", "none", 0, <<>>),
                  Stmt("deny", "default", "none", 0, <<>>),
                  Stmt("allow", "process*", "none", 0, <<>>),
                  Stmt("allow", "sysctl*", "none", 0, <<>>),
                  Stmt("allow", "mach*", "none", 0, <<>>)>>
                \o (IF IsSome(self.http_proxy_port)
                    THEN <<AllowNetwork(Unwrap(self.http_proxy_port))>> ELSE <<>>)
                \o (IF IsSome(self.socks_proxy_port)
                    THEN <<AllowNetwork(Unwrap(self.socks_proxy_port))>> ELSE <<>>)
                \o fsr.rules]

\* one element of an argument vector: a word, a path, or the proxy URL
Word(s) == [text |-> s, path |-> <<>>, port |-> 0]
PathArg(p) == [text |-> "path", path |-> p, port |-> 0]
ProxyUrl(port) == [text |-> "http://localhost:", path |-> <<>>, port |-> port]

\* the three arguments pushed for one allow_write path, none when the
\* expanded path does not exist
BindArgs(list, on_disk) ==
    [i \in 1..Len(list) |->
        IF expand_path(list[i]).path \in on_disk
        THEN <<Word("--bind"), PathArg(expand_path(list[i]).path),
               PathArg(expand_path(list[i]).path)>>
        ELSE <<>>]
RECURSIVE Concat(_)
Concat(seqs) == IF seqs = <<>> THEN <<>> ELSE Head(seqs) \o Concat(Tail(seqs))

\* mutant: every allow_write path is bound, whether it exists or not
Linux_add_filesystem_args_BindAll(fs, on_disk) ==
    IF ~ExpandsAll(fs.allow_write) THEN [ok |-> FALSE, args |-> <<>>]
    ELSE [ok |-> TRUE,
          args |-> <<Word("--ro-bind"), PathArg(Path_root), PathArg(Path_root)>>
                   \o Concat(BindArgs(fs.allow_write,
                                      {expand_path(fs.allow_write[i]).path :
                                          i \in 1..Len(fs.allow_write)}))
                   \o <<Word("--tmpfs"), PathArg(Path_tmp),
                        Word("--dev"), PathArg(Path_dev),
                        Word("--proc"), PathArg(Path_proc)>>]

\* LinuxSandbox::add_filesystem_args: the read-only root, a read-write bind
\* per existing allow_write path, then /tmp, /dev and /proc
Linux_add_filesystem_args(fs, on_disk) ==
    IF ~ExpandsAll(fs.allow_write) THEN [ok |-> FALSE, args |-> <<>>]
    ELSE [ok |-> TRUE,
          args |-> <<Word("--ro-bind"), PathArg(Path_root), PathArg(Path_root)>>
                   \o Concat(BindArgs(fs.allow_write, on_disk))
                   \o <<Word("--tmpfs"), PathArg(Path_tmp),
                        Word("--dev"), PathArg(Path_dev),
                        Word("--proc"), PathArg(Path_proc)>>]

\* LinuxSandbox::wrap_command: the argument vector joined after bwrap_path
Linux_wrap_command(self, command, on_disk) ==
    LET fsa == Linux_add_filesystem_args(self.filesystem, on_disk)
    IN IF ~fsa.ok
       THEN [res |-> ErrConfig, profile |-> <<>>, args |-> <<>>, self |-> self]
       ELSE [res |-> "Ok", profile |-> <<>>, self |-> self,
             args |-> <<Word("--unshare-net"), Word("--unshare-ipc")>>
                      \o fsa.args
                      \o (IF IsSome(self.http_proxy_port)
                          THEN <<Word("--setenv"), Word("HTTP_PROXY"),
                                 ProxyUrl(Unwrap(self.http_proxy_port)),
                                 Word("--setenv"), Word("HTTPS_PROXY"),
                                 ProxyUrl(Unwrap(self.http_proxy_port))>>
                          ELSE <<>>)
                      \o <<Word("sh"), Word("-c"), Word(command)>>]

\* MacOSSandbox::wrap_command: the profile is generated, written to the
\* profile file, and named in the sandbox-exec command line
MacOS_wrap_command(self, command, write_ok) ==
    LET g == MacOS_generate_profile(self)
    IN IF ~g.ok
       THEN [res |-> ErrConfig, profile |-> <<>>, args |-> <<>>, self |-> self]
       ELSE IF ~write_ok
       THEN [res |-> ErrIo, profile |-> <<>>, args |-> <<>>, self |-> self]
       ELSE [res |-> "Ok", profile |-> g.profile, self |-> self,
             args |-> <<Word("sandbox-exec"), Word("-f"), Word("srt-profile-pid.sb"),
                        Word("sh"), Word("-c"), Word(command)>>]

\* LinuxSandbox::new / MacOSSandbox::new: the isolation executable is looked
\* up; the ports start as None
SandboxNew ==
    \E kind \in {"linux", "macos"} : \E fs \in FilesystemConfigs :
    \E tool_present \in BOOLEAN :
        /\ sandbox.kind = "none" /\ built.res = "none"
        /\ IF tool_present
           THEN /\ sandbox' = [kind |-> kind, filesystem |-> fs,
                               http_proxy_port |-> <<>>, socks_proxy_port |-> <<>>]
                /\ UNCHANGED built
           ELSE /\ built' = [res |-> IF kind = "linux" THEN ErrCommandNotFound
                                     ELSE ErrUnsupportedPlatform,
                             profile |-> <<>>, args |-> <<>>, self |-> sandbox]
                /\ UNCHANGED sandbox
        /\ UNCHANGED <<hostVars, disk, lockVars, matcherVars, storeVars, managerVars,
                       connVars, last>>

\* set_proxy_ports(&mut self, http_port, socks_port)
SetProxyPorts ==
    \E pp \in ProxyPortPairs :
        /\ sandbox.kind # "none"
        /\ sandbox' = [sandbox EXCEPT !.http_proxy_port = Some(pp[1]),
                                      !.socks_proxy_port = Some(pp[2])]
        /\ UNCHANGED <<hostVars, disk, built, lockVars, matcherVars, storeVars, managerVars,
                       connVars, last>>

\* wrap_command(&self, command) of the constructed builder; the macOS
\* builder's std::fs::write replaces the content of the process's profile file
BuilderWrap ==
    \E command \in Commands : \E write_ok \in BOOLEAN :
        /\ sandbox.kind # "none"
        /\ sandbox.kind = "linux" => write_ok
        /\ built' = IF sandbox.kind = "linux"
                    THEN Linux_wrap_command(sandbox, command, disk)
                    ELSE MacOS_wrap_command(sandbox, command, write_ok)
        /\ profile_file' = IF sandbox.kind = "macos" /\ built'.res = "Ok"
                           THEN Some(built'.profile) ELSE profile_file
        /\ UNCHANGED <<logVars, execVars, pending, ran, sandbox, disk, lockVars,
                       matcherVars, storeVars, managerVars, connVars, last>>

BuilderInit ==
    /\ input = [host |-> <<>>, allowed |-> <<>>, denied |-> <<>>]
    /\ httpOut = "none" /\ socksOut = "none"
    /\ ManagerNew([network |-> [allowed_domains |-> <<>>, denied_domains |-> <<>>],
                   docker |-> <<>>], "linux")
    /\ sandbox = NoSandbox
    /\ built = NoBuilt
    /\ disk \in DiskStates
    /\ HostIdle

BuilderNext == SandboxNew \/ SetProxyPorts \/ BuilderWrap

SpecBuilder == BuilderInit /\ [][BuilderNext]_vars

\* ---------------------------------------------------------------------------
\* What a built invocation lets the sandboxed command do
\* ---------------------------------------------------------------------------
\* the paths whose access is looked at
ProbePaths ==
    {Path_a, Path_a_b, <<"a", "b", "c">>, <<"a", "z">>, HomeDir \o <<"s">>,
     Path_tmp_x, <<"etc">>}

MaxOf(S) == CHOOSE i \in S : \A j \in S : j <= i

\* seatbelt: of the statements that apply to the operation on the path, the
\* last one decides
ProfileAllows(profile, op, path) ==
    LET applies == {i \in 1..Len(profile) :
                       /\ profile[i].op \in {"default", op}
                       /\ profile[i].filter = "subpath"
                             => IsPrefix(profile[i].path, path)}
    IN applies # {} /\ profile[MaxOf(applies)].action = "allow"

\* seatbelt: a connection to localhost:port is allowed when the last network
\* statement that applies to it is an allow
ProfileAllowsNetwork(profile, port) ==
    LET applies == {i \in 1..Len(profile) :
                       /\ profile[i].op \in {"default", "network*"}
                       /\ profile[i].filter = "remote ip localhost"
                             => profile[i].port = port}
    IN applies # {} /\ profile[MaxOf(applies)].action = "allow"

\* bubblewrap: the mounts are made in the order of the arguments, so the last
\* mount whose mount point contains the path decides; --bind, --tmpfs and
\* --dev are writable, --ro-bind and --proc are not
MountsWritable(args, path) ==
    LET two == {i \in 1..Len(args) :
                   /\ args[i].text \in {"--ro-bind", "--bind"}
                   /\ IsPrefix(args[i + 2].path, path)}
        one == {i \in 1..Len(args) :
                   /\ args[i].text \in {"--tmpfs", "--dev", "--proc"}
                   /\ IsPrefix(args[i + 1].path, path)}
    IN (two \cup one) # {}
       /\ args[MaxOf(two \cup one)].text \in {"--bind", "--tmpfs", "--dev"}

\* the sandboxed command of the built invocation can write the path
Writable(b, path) ==
    IF b.self.kind = "macos" THEN ProfileAllows(b.profile, "file-write*", path)
    ELSE MountsWritable(b.args, path)

\* the positions of the statements (action op ...) in a profile
StmtIndex(profile, action, op) ==
    {i \in 1..Len(profile) : profile[i].action = action /\ profile[i].op = op}

\* ---------------------------------------------------------------------------
\* C23. macOS profile precedence: in a generated profile (deny default) comes
\* before every allow statement, the one blanket allow file-read* before every
\* deny file-read*, and every allow file-write* before every deny file-write*;
\* there is a statement for every configured path, and every path that is a
\* denyWrite path or lies under one is write-denied by the profile, whatever
\* allowWrite holds.
C23_ProfilePrecedence ==
    (built.res = "Ok" /\ built.self.kind = "macos") =>
        LET p == built.profile
            fs == built.self.filesystem
            blanket == {i \in StmtIndex(p, "allow", "file-read*") :
                           p[i].filter = "none"}
        IN /\ Cardinality(StmtIndex(p, "deny", "default")) = 1
           /\ \A d \in StmtIndex(p, "deny", "default") :
              \A i \in 1..Len(p) : p[i].action = "allow" => d < i
           /\ Cardinality(blanket) = 1
           /\ \A a \in blanket : \A d \in StmtIndex(p, "deny", "file-read*") : a < d
           /\ \A a \in StmtIndex(p, "allow", "file-write*") :
              \A d \in StmtIndex(p, "deny", "file-write*") : a < d
           /\ Cardinality(StmtIndex(p, "allow", "file-write*")) = Len(fs.allow_write)
           /\ Cardinality(StmtIndex(p, "deny", "file-write*")) = Len(fs.deny_write)
           /\ Cardinality(StmtIndex(p, "deny", "file-read*")) = Len(fs.deny_read)
           /\ \A k \in 1..Len(fs.deny_write) : \A path \in ProbePaths :
                 IsPrefix(expand_path(fs.deny_write[k]).path, path)
                    => ~ProfileAllows(p, "file-write*", path)
           /\ \A k \in 1..Len(fs.deny_read) : \A path \in ProbePaths :
                 IsPrefix(expand_path(fs.deny_read[k]).path, path)
                    => ~ProfileAllows(p, "file-read*", path)

\* a profile generated for a configuration that lists /a in both allowWrite
\* and denyWrite
C23_Witness ==
    /\ built.res = "Ok" /\ built.self.kind = "macos"
    /\ built.self.filesystem.allow_write = <<Path_a>>
    /\ built.self.filesystem.deny_write = <<Path_a>>
    /\ ~ProfileAllows(built.profile, "file-write*", Path_a_b)

\* ---------------------------------------------------------------------------
\* C24. Filesystem policy invariant on every isolation path: in the wrapped
\* invocation of either platform builder, no path that is a denyWrite path or
\* lies under one is writable by the sandboxed command, whatever allowWrite
\* holds.
C24_DenyWriteOverrides ==
    built.res = "Ok" =>
        \A k \in 1..Len(built.self.filesystem.deny_write) :
        \A path \in ProbePaths :
            IsPrefix(expand_path(built.self.filesystem.deny_write[k]).path, path)
               => ~Writable(built, path)

\* ---------------------------------------------------------------------------
\* C30. macOS profile network rule: in a profile generated after
\* set_proxy_ports(http, socks) the allow network statements are exactly two,
\* the one for localhost:http followed by the one for localhost:socks, both
\* after (deny default); no other statement mentions the network, and the
\* profile allows a connection to localhost:p only for p = http or p = socks.
IsAllowNetwork(st) == st.action = "allow" /\ st.op = "network*"

C30_NetworkRule ==
    (built.res = "Ok" /\ built.self.kind = "macos"
     /\ IsSome(built.self.http_proxy_port)) =>
        LET p == built.profile
            http_port == Unwrap(built.self.http_proxy_port)
            socks_port == Unwrap(built.self.socks_proxy_port)
        IN /\ SelectSeq(p, IsAllowNetwork)
                 = <<AllowNetwork(http_port), AllowNetwork(socks_port)>>
           /\ \A i \in 1..Len(p) : p[i].op = "network*" => IsAllowNetwork(p[i])
           /\ \A d \in StmtIndex(p, "deny", "default") :
              \A i \in StmtIndex(p, "allow", "network*") : d < i
           /\ \A port \in 1..MaxPorts :
                 ProfileAllowsNetwork(p, port) <=> port \in {http_port, socks_port}

\* a profile generated after set_proxy_ports(1, 2)
C30_Witness ==
    /\ built.res = "Ok" /\ built.self.kind = "macos"
    /\ built.self.http_proxy_port = Some(1)
    /\ built.self.socks_proxy_port = Some(2)
    /\ ProfileAllowsNetwork(built.profile, 2)
    /\ ~ProfileAllowsNetwork(built.profile, 3)

\* ---------------------------------------------------------------------------
\* C25. One proxy of each kind: the manager holds at most one HTTP handle and
\* at most one SOCKS5 handle, and whatever sequence of initialize() and
\* reset() calls was made, at most one HTTP accept loop and at most one SOCKS5
\* accept loop started by the manager is alive.
C25_OneLoopPerKind ==
    /\ Len(http_proxy) <= 1 /\ Len(socks_proxy) <= 1
    /\ Cardinality({t \in tasks : t.kind = "http"}) <= 1
    /\ Cardinality({t \in tasks : t.kind = "socks"}) <= 1

\* ---------------------------------------------------------------------------
\* C26. HTTP host resolution: the host the policy is evaluated on is the host
\* of the request URI when the URI has an authority; else the Host header up
\* to, and without, its first ':'; else the empty string, which is denied
\* whenever the allow list is non-empty and none of its patterns matches the
\* empty host. The 403 body names that host.
HeaderHost(h) ==
    LET k == CHOOSE n \in 0..Len(h) :
                 /\ \A i \in 1..n : h[i] # ":"
                 /\ n = Len(h) \/ h[n + 1] = ":"
    IN SubSeq(h, 1, k)

ResolvedHost(req) ==
    IF IsSome(req.uri_host) THEN Unwrap(req.uri_host)
    ELSE IF IsSome(req.host_header) THEN HeaderHost(Unwrap(req.host_header))
    ELSE <<>>

C26_HostResolution ==
    \A c \in 1..Len(hconns) :
        IsSome(hconns[c].resp) =>
            LET req == Unwrap(hconns[c].req)
                resp == Unwrap(hconns[c].resp)
                n == HttpPolicyOf(c)
                host == ResolvedHost(req)
            IN /\ resp.status = 403 <=> ~GlobPolicyAllows(n, host)
               /\ resp.status = 403 => resp.body[2] = host
               /\ (~IsSome(req.uri_host) /\ ~IsSome(req.host_header)
                   /\ n.allowed_domains # <<>>
                   /\ ~\E i \in 1..Len(n.allowed_domains) :
                           GlobMatch(n.allowed_domains[i], <<>>))
                     => resp.status = 403

\* a request without a URI authority and with the header "b.a:80" was
\* evaluated as b.a and denied, and one with neither was denied as ""
C26_Witness ==
    \E c, d \in 1..Len(hconns) :
        /\ IsSome(hconns[c].resp) /\ IsSome(hconns[d].resp)
        /\ Unwrap(hconns[c].req).uri_host = <<>>
        /\ Unwrap(hconns[c].req).host_header = Some(H_b_a_port)
        /\ Unwrap(hconns[c].resp).status = 403
        /\ Unwrap(hconns[c].resp).body[2] = P_b_a
        /\ Unwrap(hconns[d].req).uri_host = <<>>
        /\ Unwrap(hconns[d].req).host_header = <<>>
        /\ Unwrap(hconns[d].resp).status = 403
        /\ Unwrap(hconns[d].resp).body[2] = <<>>

\* ---------------------------------------------------------------------------
\* SOCKS5 IP-literal targets against the pattern lists
\* ---------------------------------------------------------------------------
\* the TargetAddr::Ip targets clients ask for
SocksIpTargets ==
    {[type |-> "ip", domain |-> <<>>, ip |-> <<10, 0, 0, 1>>],
     [type |-> "ip", domain |-> <<>>, ip |-> <<192, 168, 0, 1>>]}
P_star == <<"*">>
P_star_dot_1 == <<"*", ".", "1">>
P_10_0_0_1 == Ipv4_to_string(<<10, 0, 0, 1>>)
P_10q_0_0_1 == <<"1", "0", "?", ".", "0", ".", "0", ".", "1">>
\* allow patterns tried against them: wildcards, a host name, an IP literal,
\* and a pattern holding a character of the regex syntax
IpAllowPool == {P_star, P_star_dot_1, P_star_a, H_a_a, P_10_0_0_1, P_10q_0_0_1}
IpDenyPool == {P_10_0_0_1}

\* the matcher harness on the textual form handle_socks_connection evaluates
IpMatcherInit ==
    /\ \E t \in SocksIpTargets :
       \E a \in ListsUpTo(IpAllowPool, MaxListLen) :
       \E d \in ListsUpTo(IpDenyPool, 1) :
          input = [host |-> socks_target_host(t), allowed |-> a, denied |-> d]
    /\ httpOut = "none"
    /\ socksOut = "none"
    /\ BuilderIdle
    /\ HostIdle
    /\ ManagerNew([network |-> [allowed_domains |-> <<>>, denied_domains |-> <<>>],
                   docker |-> <<>>], "linux")

SpecIpMatcher == IpMatcherInit /\ [][MatcherNext]_vars

HasWildcard(p) == \E i \in 1..Len(p) : p[i] = "*"

\* C27 as stated: under a non-empty allow list that holds no IP-literal
\* pattern, every IP-literal target is denied.
C27_IpLiteralAsClaimed ==
    (/\ IsIpv4Text(input.host)
     /\ socksOut \in {"allow", "deny"}
     /\ input.allowed # <<>>
     /\ \A i \in 1..Len(input.allowed) : ~IsIpv4Text(input.allowed[i]))
        => socksOut = "deny"

\* C27. SOCKS5 IP-literal targets are evaluated by the same predicates on
\* their dotted-decimal text: the target is allowed exactly when no denied
\* pattern matches the text and the allow list is empty or one of its patterns
\* matches the text, a wildcard pattern included; under a non-empty allow list
\* of patterns that hold no wildcard and no regex syntax and differ from the
\* text, every IP-literal target is denied.
C27_IpLiteral ==
    (IsIpv4Text(input.host) /\ socksOut \in {"allow", "deny"}) =>
        /\ (\A i \in 1..Len(input.allowed) : IsGlobPattern(input.allowed[i]))
           /\ (\A i \in 1..Len(input.denied) : IsGlobPattern(input.denied[i]))
              => socksOut = Verdict(GlobPolicyAllows(
                                [allowed_domains |-> input.allowed,
                                 denied_domains |-> input.denied], input.host))
        /\ (/\ input.allowed # <<>>
            /\ \A i \in 1..Len(input.allowed) :
                  /\ ~HasWildcard(input.allowed[i])
                  /\ IsGlobPattern(input.allowed[i])
                  /\ input.allowed[i] # input.host)
              => socksOut = "deny"

\* 192.168.0.1 was denied under the allow list [a.a, 10.0.0.1]
C27_Witness ==
    /\ input.host = Ipv4_to_string(<<192, 168, 0, 1>>)
    /\ input.allowed = <<H_a_a, P_10_0_0_1>>
    /\ input.denied = <<>>
    /\ socksOut = "deny"

\* ---------------------------------------------------------------------------
\* ViolationStore at the grain of its two mutexes, with subscriber callbacks
\* that call back into the store (src/sandbox/violation_store.rs)
\* ---------------------------------------------------------------------------
\* callbacks registered over a run of the lock-level store
MaxCallbacks == 2

\* what a subscriber callback does with the store it was registered on
CallbackOps == {"return", "count", "get_violations", "clear"}

\* the violation appended as history[id] is in the log
InLog(id) == id > cleared_upto

\* the violation recorded in the lock-level runs, whose steps do not depend
\* on the value recorded
LockRunViolation == [violation_type |-> "Network", target |-> "evil.com"]

\* add_violation(&self, violation) is entered
AddEnter(t) ==
    /\ thr[t].pc = "idle"
    /\ Len(history) + InFlight < MaxAdds
    /\ thr' = [thr EXCEPT ![t] =
                 [pc |-> "add_push", v |-> <<LockRunViolation>>, id |-> 0,
                  prev |-> Len(violations), nsubs |-> Len(subscribers),
                  appended |-> FALSE, cleared |-> FALSE, ret |-> thr[t].ret]]
    /\ UNCHANGED <<hostVars, builderVars, lockVars, matcherVars, managerVars, connVars,
                   last, violations, subscribers, history, cleared_upto>>

\* add_violation, first block: self.violations.lock().unwrap() and push
PushLock(t) ==
    /\ thr[t].pc = "add_push"
    /\ violations_lock = 0
    /\ violations_lock' = t
    /\ violations' = Append(violations, thr[t].v[1])
    /\ history' = Append(history, thr[t].v[1])
    /\ thr' = [Overlapped(t, thr, FALSE) EXCEPT ![t].pc = "push_unlock",
                                         ![t].id = Len(history) + 1]
    /\ UNCHANGED <<hostVars, builderVars, matcherVars, managerVars, connVars, last,
                   subscribers, cleared_upto, subscribers_lock, cb, invocations>>

\* mutant: the guard of the first block lives until add_violation returns
PushUnlock_KeepsLock(t) ==
    /\ thr[t].pc = "push_unlock"
    /\ thr' = [thr EXCEPT ![t].pc = "add_notify"]
    /\ UNCHANGED <<hostVars, builderVars, matcherVars, managerVars, connVars, last,
                   violations, history, subscribers, cleared_upto,
                   violations_lock, subscribers_lock, cb, invocations>>

\* add_violation, end of the first block: the guard is dropped
PushUnlock(t) ==
    /\ thr[t].pc = "push_unlock"
    /\ violations_lock' = 0
    /\ thr' = [thr EXCEPT ![t].pc = "add_notify"]
    /\ UNCHANGED <<hostVars, builderVars, matcherVars, managerVars, connVars, last,
                   violations, history, subscribers, cleared_upto,
                   subscribers_lock, cb, invocations>>

\* add_violation, second block: self.subscribers.lock().unwrap()
NotifyLock(t) ==
    /\ thr[t].pc = "add_notify"
    /\ subscribers_lock = 0
    /\ subscribers_lock' = t
    /\ thr' = [thr EXCEPT ![t].pc = "notifying"]
    /\ cb' = [cb EXCEPT ![t] = [i |-> 1, op |-> "none"]]
    /\ UNCHANGED <<hostVars, builderVars, matcherVars, managerVars, connVars, last,
                   violations, history, subscribers, cleared_upto,
                   violations_lock, invocations>>

\* for subscriber in subscribers.iter() { subscriber(&violation) }: the next
\* callback is entered on the thread inside add_violation
CallbackEnter(t) ==
    \E op \in CallbackOps :
        /\ thr[t].pc = "notifying"
        /\ cb[t].i <= Len(subscribers)
        /\ subscribers' = [subscribers EXCEPT ![cb[t].i] =
                              Append(@, [v |-> thr[t].v[1], id |-> thr[t].id])]
        /\ invocations' = Append(invocations,
                                 [sub |-> cb[t].i, id |-> thr[t].id, thread |-> t,
                                  of |-> Len(subscribers),
                                  in_log |-> InLog(thr[t].id),
                                  cleared |-> thr[t].cleared])
        /\ IF op = "return"
           THEN /\ cb' = [cb EXCEPT ![t].i = @ + 1]
                /\ UNCHANGED thr
           ELSE /\ cb' = [cb EXCEPT ![t].op = op]
                /\ thr' = [thr EXCEPT ![t].pc = "in_callback"]
        /\ UNCHANGED <<hostVars, builderVars, matcherVars, managerVars, connVars, last,
                       violations, history, cleared_upto, violations_lock,
                       subscribers_lock>>

\* the callback's count(), get_violations() or clear(): each takes the
\* violations mutex for the length of the call, then the callback returns
CallbackReenter(t) ==
    /\ thr[t].pc = "in_callback"
    /\ violations_lock = 0
    /\ IF cb[t].op = "clear"
       THEN /\ violations' = <<>>
            /\ cleared_upto' = Len(history)
            /\ thr' = [Overlapped(t, thr, TRUE) EXCEPT ![t].pc = "notifying",
                                                ![t].cleared = TRUE]
       ELSE /\ thr' = [thr EXCEPT ![t].pc = "notifying"]
            /\ UNCHANGED <<violations, cleared_upto>>
    /\ cb' = [cb EXCEPT ![t] = [i |-> @.i + 1, op |-> "none"]]
    /\ UNCHANGED <<hostVars, builderVars, matcherVars, managerVars, connVars, last,
                   history, subscribers, violations_lock, subscribers_lock,
                   invocations>>

\* the loop is over: the subscribers guard is dropped and add_violation returns
NotifyUnlock(t) ==
    /\ thr[t].pc = "notifying"
    /\ cb[t].i > Len(subscribers)
    /\ subscribers_lock' = 0
    /\ thr' = [thr EXCEPT ![t] = ThreadIdle(thr[t].ret)]
    /\ cb' = [cb EXCEPT ![t] = NoCallback]
    /\ UNCHANGED <<hostVars, builderVars, matcherVars, managerVars, connVars, last,
                   violations, history, subscribers, cleared_upto,
                   violations_lock, invocations>>

\* subscribe(&self, callback) from the thread that owns the manager: the
\* subscribers mutex is taken for the push
SubscribeLocked(t) ==
    /\ t \in Callers
    /\ thr[t].pc = "idle"
    /\ subscribers_lock = 0
    /\ Len(subscribers) < MaxCallbacks
    /\ subscribers' = Append(subscribers, <<>>)
    /\ UNCHANGED <<hostVars, builderVars, lockVars, matcherVars, managerVars, connVars,
                   last, violations, thr, history, cleared_upto>>

\* clear(&self) from the thread that owns the manager: the violations mutex
\* is taken for the call
ClearLocked(t) ==
    /\ t \in Callers
    /\ thr[t].pc = "idle"
    /\ violations_lock = 0
    /\ violations' = <<>>
    /\ cleared_upto' = Len(history)
    /\ thr' = Overlapped(t, thr, TRUE)
    /\ UNCHANGED <<hostVars, builderVars, lockVars, matcherVars, managerVars, connVars,
                   last, subscribers, history>>

CallbacksNext ==
    \E t \in Threads :
        \/ AddEnter(t)
        \/ PushLock(t)
        \/ PushUnlock(t)
        \/ NotifyLock(t)
        \/ CallbackEnter(t)
        \/ CallbackReenter(t)
        \/ NotifyUnlock(t)
        \/ SubscribeLocked(t)
        \/ ClearLocked(t)

SpecCallbacks == StoreInit /\ [][CallbacksNext]_vars

\* the invocations made for the violation appended as history[id], in order
IsFor(id, inv) == inv.id = id
InvocationsOf(id) ==
    LET pick(inv) == IsFor(id, inv) IN SelectSeq(invocations, pick)

\* the appending precedes every invocation, the invocations of one call run
\* down the subscriber list on the calling thread and are complete when the
\* call has returned, and a callback's call into the store finds the
\* violations mutex free or held by a thread about to release it
OrderedAndUnblocked ==
    /\ \A k \in 1..Len(invocations) :
          /\ invocations[k].id \in 1..Len(history)
          /\ \E t \in Threads : invocations[k].thread = t
    /\ \A id \in 1..Len(history) :
          LET mine == InvocationsOf(id)
          IN /\ \A j \in 1..Len(mine) :
                   /\ mine[j].sub = j
                   /\ mine[j].thread = mine[1].thread
                   /\ mine[j].of = mine[1].of
             /\ (\A t \in Threads : thr[t].id # id)
                   => (Len(mine) = 0 \/ Len(mine) = mine[1].of)
    /\ \A t \in Threads :
          /\ thr[t].pc \in {"add_notify", "notifying", "in_callback"}
                => thr[t].id \in 1..Len(history)
          /\ thr[t].pc \in {"notifying", "in_callback"}
                => (subscribers_lock = t /\ violations_lock # t)
          /\ thr[t].pc = "in_callback"
                => (violations_lock # 0 => thr[violations_lock].pc = "push_unlock")

\* C28 (as claimed): add_violation appends v before it invokes any subscriber
\* and invokes the subscribers in registration order on the calling thread
\* before it returns, a callback's count(), get_violations() or clear() does
\* not block, and whenever a subscriber callback for v runs, v is in the log.
C28_RecordOrderingAsClaimed ==
    /\ OrderedAndUnblocked
    /\ \A k \in 1..Len(invocations) : invocations[k].in_log

\* C28 (amended): the same, where v is in the log when a callback for it is
\* entered unless a clear() has run during the call (from another thread
\* between the two blocks of add_violation, or from an earlier callback of
\* the same call).
C28_RecordOrdering ==
    /\ OrderedAndUnblocked
    /\ \A k \in 1..Len(invocations) :
          ~invocations[k].cleared => invocations[k].in_log

\* a call with two subscribers registered has returned; the first callback
\* called clear(), so the second ran with the violation no longer in the log
C28_Witness ==
    /\ Len(subscribers) = 2
    /\ Len(invocations) = 2
    /\ invocations[1].sub = 1 /\ invocations[1].in_log
    /\ invocations[2].sub = 2 /\ ~invocations[2].in_log
    /\ invocations[1].id = invocations[2].id
    /\ \A t \in Threads : thr[t].pc = "idle"
    /\ violations = <<>> /\ Len(history) = 1

\* ---------------------------------------------------------------------------
\* C29. Concurrent records lose nothing: as long as nobody has called clear,
\* the log holds every violation appended by any thread exactly once, in the
\* order of the appends, so its length is the number of add_violation calls
\* that have appended; the violation of a call still notifying sits at its
\* own position; the log only grows at its end, and every list or count a
\* reader was given is a prefix (the length of a prefix) of the log from then
\* on, the final log included.
C29_NoLostRecords ==
    /\ [](cleared_upto = 0 =>
            /\ violations = history
            /\ \A t \in Threads :
                  thr[t].pc = "add_notify" =>
                     /\ thr[t].id \in 1..Len(violations)
                     /\ violations[thr[t].id] = thr[t].v[1]
                     /\ \A u \in Threads \ {t} :
                           thr[u].pc = "add_notify" => thr[u].id # thr[t].id
            /\ \A t \in Threads :
                  /\ thr[t].ret.op = "get_violations"
                        => IsPrefix(thr[t].ret.list, violations)
                  /\ thr[t].ret.op = "count" => thr[t].ret.n <= Len(violations))
    /\ [][cleared_upto' = 0 =>
            /\ IsPrefix(violations, violations')
            /\ \A t \in Threads :
                  AddPush(t) => Len(violations') = Len(violations) + 1]_vars

\* the observer thread is between its push and its notification; during its
\* call the caller read a one-element list and then appended a violation of
\* its own; nobody cleared, and the log holds both violations, the list read
\* being its prefix
C29_Witness ==
    /\ cleared_upto = 0
    /\ Len(violations) = 2
    /\ violations[1] # violations[2]
    /\ \E o \in Observers :
          thr[o].pc = "add_notify" /\ thr[o].id = 1 /\ thr[o].appended
    /\ \E t \in Callers :
          /\ thr[t].pc = "idle"
          /\ thr[t].ret.op = "get_violations"
          /\ thr[t].ret.list = <<violations[1]>>

\* ===========================================================================
\* Claims about the Linux argument list (checked under SpecBuilder)
\* ===========================================================================
\* the allow_write paths that exist on disk, expanded, in configuration order
RECURSIVE ExistingPaths(_, _)
ExistingPaths(list, on_disk) ==
    IF list = <<>> THEN <<>>
    ELSE (IF expand_path(Head(list)).path \in on_disk
          THEN <<expand_path(Head(list)).path>> ELSE <<>>)
         \o ExistingPaths(Tail(list), on_disk)

\* the arguments of position from..to of an argument vector
ArgsFrom(args, from, to) == SubSeq(args, from, to)

W_deny == <<"d", "e", "n", "y">>
W_file_read == <<"f", "i", "l", "e", "-", "r", "e", "a", "d">>
W_file_write == <<"f", "i", "l", "e", "-", "w", "r", "i", "t", "e">>
W_network == <<"n", "e", "t", "w", "o", "r", "k">>
W_unix_socket == <<"u", "n", "i", "x", "-", "s", "o", "c", "k", "e", "t">>
W_x == <<"/", "x">>
W_sp == <<" ">>
W_unknown == <<"u", "n", "k", "n", "o", "w", "n">>
LineChunks ==
    {W_deny, W_file_read, W_file_write, W_network, W_unix_socket, W_x, W_sp}
\* pieces per generated log line
MaxLineChunks == 3
LogLines == {Concat(c) : c \in ListsUpTo(LineChunks, MaxLineChunks)}
\* lines of the logs that hold more than one line
SampleLines ==
    {W_deny \o W_sp \o W_network \o W_sp \o W_x,
     W_file_write \o W_sp \o W_x,
     W_deny \o W_sp \o W_file_write \o W_sp \o W_file_read}
\* the OS logs an observer is run on
OsLogs ==
    {<<l>> : l \in LogLines} \cup {<<l, m>> : l \in SampleLines, m \in SampleLines}

\* str::contains
contains(line, w) ==
    \E i \in 1..(Len(line) - Len(w) + 1) : SubSeq(line, i, i + Len(w) - 1) = w

\* split_whitespace().last(): the last maximal run of non-whitespace
\* characters, None when the line holds none
split_whitespace_last(line) ==
    LET solid == {i \in 1..Len(line) : line[i] # " "}
    IN IF solid = {} THEN <<>>
       ELSE LET e == CHOOSE i \in solid : \A j \in solid : j <= i
                b == CHOOSE i \in 1..e :
                        /\ \A j \in i..e : line[j] # " "
                        /\ (i = 1 \/ line[i - 1] = " ")
            IN Some(SubSeq(line, b, e))

\* mutant: unix-socket is looked for before network
violation_type_of_SocketFirst(line) ==
    IF contains(line, W_file_read) THEN "FilesystemRead"
    ELSE IF contains(line, W_file_write) THEN "FilesystemWrite"
    ELSE IF contains(line, W_unix_socket) THEN "UnixSocket"
    ELSE IF contains(line, W_network) THEN "Network"
    ELSE "Other"

\* parse_and_add_violation: the if / else-if chain over line.contains(..)
violation_type_of(line) ==
    IF contains(line, W_file_read) THEN "FilesystemRead"
    ELSE IF contains(line, W_file_write) THEN "FilesystemWrite"
    ELSE IF contains(line, W_network) THEN "Network"
    ELSE IF contains(line, W_unix_socket) THEN "UnixSocket"
    ELSE "Other"

\* parse_and_add_violation: the Violation built from a line
parse_violation(line) ==
    [violation_type |-> violation_type_of(line),
     target |-> IF IsSome(split_whitespace_last(line))
                THEN Unwrap(split_whitespace_last(line)) ELSE W_unknown]

\* the OS emits the next line of its sandbox log
LogWrite ==
    /\ written < Len(oslog)
    /\ written' = written + 1
    /\ UNCHANGED <<oslog, monitors, execVars, fileVars, builderVars, lockVars,
                   matcherVars, storeVars, managerVars, connVars, last>>

\* the body of the observer thread's loop for one line of its stream: a line
\* containing "deny" goes to parse_and_add_violation, which calls
\* add_violation once (push, then every subscriber)
ObserverRead ==
    \E o \in 1..Len(monitors) :
        /\ monitors[o] < written
        /\ monitors' = [monitors EXCEPT ![o] = monitors[o] + 1]
        /\ LET line == oslog[monitors[o] + 1]
               v == parse_violation(line)
           IN IF contains(line, W_deny)
              THEN /\ violations' = Append(violations, v)
                   /\ history' = Append(history, v)
                   /\ subscribers' =
                        [i \in 1..Len(subscribers) |->
                            Append(subscribers[i], [v |-> v, id |-> Len(history) + 1])]
              ELSE UNCHANGED <<violations, history, subscribers>>
        /\ UNCHANGED <<oslog, written, execVars, fileVars, thr, cleared_upto,
                       builderVars, lockVars, matcherVars, managerVars, connVars,
                       last>>

\* one observer at the start of a log the OS is about to emit
ObserverInit ==
    /\ MatcherIdle
    /\ BuilderIdle
    /\ ManagerNew([network |-> [allowed_domains |-> <<>>, denied_domains |-> <<>>],
                   docker |-> <<>>], "macos")
    /\ ExecIdle /\ FilesIdle
    /\ oslog \in OsLogs
    /\ written = 0
    /\ monitors = <<0>>

ObserverNext == LogWrite \/ ObserverRead

SpecObserver == ObserverInit /\ [][ObserverNext]_vars

\* ===========================================================================
\* Claims about the observer (checked under SpecObserver)
\* ===========================================================================
HasDeny(line) == contains(line, W_deny)

\* t is the last whitespace-separated token of the line
IsLastToken(line, t) ==
    /\ t # <<>> /\ \A i \in 1..Len(t) : t[i] # " "
    /\ \E pre \in 0..Len(line) : \E post \in 0..Len(line) :
          /\ pre + Len(t) + post = Len(line)
          /\ SubSeq(line, pre + 1, pre + Len(t)) = t
          /\ \A i \in (pre + Len(t) + 1)..Len(line) : line[i] = " "
          /\ pre > 0 => line[pre] = " "

\* C32. Observer classification: of the lines the observer has read, exactly
\* those containing "deny" were recorded, one add_violation per line and in
\* the order of the lines; the type recorded for a line is FilesystemRead if
\* it contains "file-read", else FilesystemWrite if it contains "file-write",
\* else Network if it contains "network", else UnixSocket if it contains
\* "unix-socket", else Other; the target is the line's last
\* whitespace-separated token (a line containing "deny" always has one; the
\* parser gives "unknown" for a line of whitespace only).
C32_ObserverClassification ==
    LET read == SubSeq(oslog, 1, monitors[1])
        denied == SelectSeq(read, HasDeny)
    IN /\ Len(history) = Len(denied)
       /\ violations = history
       /\ \A k \in 1..Len(denied) :
             LET l == denied[k]
                 fr == contains(l, W_file_read)
                 fw == contains(l, W_file_write)
                 nw == contains(l, W_network)
                 us == contains(l, W_unix_socket)
                 ty == history[k].violation_type
             IN /\ ty = "FilesystemRead" <=> fr
                /\ ty = "FilesystemWrite" <=> (~fr /\ fw)
                /\ ty = "Network" <=> (~fr /\ ~fw /\ nw)
                /\ ty = "UnixSocket" <=> (~fr /\ ~fw /\ ~nw /\ us)
                /\ ty = "Other" <=> (~fr /\ ~fw /\ ~nw /\ ~us)
                /\ IsLastToken(l, history[k].target)
       /\ parse_violation(<<" ", " ">>).target = W_unknown

\* the line "denynetworkunix-socket" was read and recorded once, as Network,
\* with the whole line as its target
C32_Witness ==
    /\ oslog = <<W_deny \o W_network \o W_unix_socket>>
    /\ monitors = <<1>>
    /\ history = <<[violation_type |-> "Network",
                    target |-> W_deny \o W_network \o W_unix_socket]>>

\* ===========================================================================
\* execute at the grain of the blocking wait (src/sandbox/manager.rs 181-186,
\* src/utils/exec.rs 25-44)
\* ===========================================================================
\* worker threads of a multi-thread runtime
MaxWorkers == 2
\* the runtimes a program may drive the manager on: tokio's current-thread
\* runtime (as under #[tokio::test]) or its multi-thread runtime
Runtimes ==
    {[flavor |-> "current_thread", workers |-> 0]}
    \cup {[flavor |-> "multi_thread", workers |-> n] : n \in 1..MaxWorkers}
\* thread 0 is the thread inside block_on, 1..workers are the worker threads.
\* Spawned tasks are polled by the block_on thread of a current-thread
\* runtime, and by the workers of a multi-thread runtime
PollingThreads(rt) ==
    IF rt.flavor = "current_thread" THEN {0} ELSE 1..rt.workers
\* the future that calls execute is polled inside block_on or, when it was
\* itself spawned, on a thread that polls tasks
CallerThreads(rt) == {0} \cup PollingThreads(rt)
\* some thread that polls spawned tasks is not blocked
CanPoll == \E th \in PollingThreads(runtime) : Some(th) # waiting

\* execute, up to cmd.status(): wrap_command returned Ok, sh was spawned, and
\* the calling thread is in the blocking wait for the child
ExecuteSpawn ==
    \E command \in Commands : \E th \in CallerThreads(runtime) :
    \E w \in {wrap_command(command, "ok")} :
        /\ waiting = <<>> /\ childproc = "none"
        /\ Len(conns) + Len(hconns) < MaxConns
        /\ w.res = "Ok"
        /\ waiting' = Some(th)
        /\ childproc' = "running"
        /\ UNCHANGED <<runtime, logVars, fileVars, builderVars, lockVars,
                       matcherVars, storeVars, managerVars, connVars, last>>

\* the child opens a connection to the HTTP proxy port it was given and
\* waits for the response
ChildConnect ==
    /\ childproc = "running"
    /\ childproc' = "connecting"
    /\ UNCHANGED <<runtime, waiting, logVars, fileVars, builderVars, lockVars,
                   matcherVars, storeVars, managerVars, connVars, last>>

\* the request the child sends through the proxy
ChildRequests ==
    {[method |-> "GET", uri_host |-> Some(H_a_a), host_header |-> <<>>]}

\* the HTTP accept loop is polled, accepts the child's connection and its
\* handler answers the request
ProxyAnswer ==
    \E t \in tasks : \E req \in ChildRequests :
        /\ childproc = "connecting"
        /\ CanPoll
        /\ t.kind = "http"
        /\ hconns' = Append(hconns,
                            [pc |-> "serving", port |-> t.port,
                             allowed |-> t.allowed, denied |-> t.denied,
                             req |-> Some(req),
                             resp |-> Some(handle_request(req, t.allowed, t.denied))])
        /\ childproc' = "answered"
        /\ UNCHANGED <<runtime, waiting, logVars, fileVars, builderVars, lockVars,
                       matcherVars, storeVars, managerVars, conns, upstream,
                       accept_errors, last>>

\* the child exits: at once if it does not use the network, else after the
\* proxy's answer
ChildExit ==
    /\ childproc \in {"running", "answered"}
    /\ childproc' = "exited"
    /\ UNCHANGED <<runtime, waiting, logVars, fileVars, builderVars, lockVars,
                   matcherVars, storeVars, managerVars, connVars, last>>

\* cmd.status() returns and execute returns Ok(code)
ExecuteReturn ==
    \E command \in Commands :
    \E x \in {execute_shell(wrap_command(command, "ok").wrapped, "exit0")} :
        /\ childproc = "exited"
        /\ waiting' = <<>>
        /\ childproc' = "none"
        /\ last' = [Call("execute", x.res, x.code, x.effects,
                         wrap_command(command, "ok").wrapped)
                    EXCEPT !.env = [builder |-> "ok", child |-> "exit0",
                                    fault |-> "none"],
                           !.spawned = x.spawned]
        /\ UNCHANGED <<runtime, logVars, fileVars, builderVars, lockVars,
                       matcherVars, storeVars, managerVars, connVars>>

\* a manager on macOS without container configuration, driven by some runtime
ExecInit ==
    /\ MatcherIdle
    /\ BuilderIdle
    /\ LogIdle /\ FilesIdle
    /\ \E n \in NetworkConfigs : ManagerNew([network |-> n, docker |-> <<>>], "macos")
    /\ runtime \in Runtimes
    /\ waiting = <<>>
    /\ childproc = "none"

ExecNext ==
    \/ (waiting = <<>> /\ Initialize)
    \/ ExecuteSpawn
    \/ ChildConnect
    \/ ProxyAnswer
    \/ ChildExit
    \/ ExecuteReturn

SpecExec == ExecInit /\ [][ExecNext]_vars

\* C33. Proxies stay live during execute: whenever the sandboxed child has
\* opened a connection to the proxy port and waits for the answer while
\* execute waits for the child, the HTTP accept loop can be run and answer it,
\* on every runtime and whichever thread execute was called on.
C33_ProxiesLiveDuringExecute ==
    (childproc = "connecting" /\ IsSome(waiting)) => ENABLED ProxyAnswer

\* ===========================================================================
\* C34. Notification order matches log order: every subscriber receives the
\* violations in the order in which they were appended to the log: in the
\* list of invocations of a subscriber, an earlier invocation is for an
\* earlier append.
C34_NotificationOrder ==
    \A i \in 1..Len(subscribers) :
        \A j, k \in 1..Len(subscribers[i]) :
            j < k => subscribers[i][j].id < subscribers[i][k].id

\* ===========================================================================
\* C35. A failed initialize() releases what it started: an initialize() that
\* returns an error leaves running no accept loop that was not running before
\* the call, and bound no port that was not bound before it.
C35_FailedInitializeReleases ==
    [][(Initialize /\ last'.op = "initialize" /\ last'.res # "Ok")
          => (tasks' \subseteq tasks
              /\ {t.port : t \in tasks'} \subseteq BoundPorts)]_vars

\* ===========================================================================
\* C36. Manager state invariant: after every completed initialize() or
\* reset(), successful or not (and after every other call), the manager is
\* Initialized exactly when it holds both the HTTP handle and the SOCKS5
\* handle; it never holds one handle without the other.
C36_StateInvariant ==
    /\ initialized <=> (IsSome(http_proxy) /\ IsSome(socks_proxy))
    /\ IsSome(http_proxy) <=> IsSome(socks_proxy)

\* a failed initialize() on a manager that was reset after a successful one:
\* Uninitialized, no handle held, although accept loops are running
C36_Witness ==
    /\ last.op = "initialize" /\ last.res = ErrIo
    /\ ~initialized /\ http_proxy = <<>> /\ socks_proxy = <<>>
    /\ Cardinality(tasks) >= 3

\* ===========================================================================
\* Subscriber callbacks that take the subscribers mutex again
\* (src/sandbox/violation_store.rs 52-77)
\* ===========================================================================
\* what such a callback calls on the store it was registered on
ReentrantOps == {"subscribe", "add_violation"}

\* a thread has panicked; every panic of these runs happens while, or
\* because, the subscribers mutex is poisoned
Poisoned == \E t \in Threads : thr[t].pc = "panicked"

\* the next callback is entered and goes on to call subscribe() or
\* add_violation() on the same store
CallbackEnterReentrant(t) ==
    \E op \in ReentrantOps :
        /\ thr[t].pc = "notifying"
        /\ cb[t].i <= Len(subscribers)
        /\ op = "add_violation" => Len(history) + InFlight < MaxAdds
        /\ subscribers' = [subscribers EXCEPT ![cb[t].i] =
                              Append(@, [v |-> thr[t].v[1], id |-> thr[t].id])]
        /\ invocations' = Append(invocations,
                                 [sub |-> cb[t].i, id |-> thr[t].id, thread |-> t,
                                  of |-> Len(subscribers),
                                  in_log |-> InLog(thr[t].id),
                                  cleared |-> thr[t].cleared])
        /\ cb' = [cb EXCEPT ![t].op = op]
        /\ thr' = [thr EXCEPT ![t].pc = "in_callback"]
        /\ UNCHANGED <<hostVars, builderVars, matcherVars, managerVars, connVars, last,
                       violations, history, cleared_upto, violations_lock,
                       subscribers_lock>>

\* the first block of the add_violation called from the callback: the
\* violations mutex is free of this thread, so the push goes through
NestedPush(t) ==
    /\ thr[t].pc = "in_callback"
    /\ cb[t].op = "add_violation"
    /\ violations_lock = 0
    /\ violations' = Append(violations, thr[t].v[1])
    /\ history' = Append(history, thr[t].v[1])
    /\ thr' = Overlapped(t, thr, FALSE)
    /\ cb' = [cb EXCEPT ![t].op = "add_violation_notify"]
    /\ UNCHANGED <<hostVars, builderVars, matcherVars, managerVars, connVars, last,
                   subscribers, cleared_upto, violations_lock, subscribers_lock,
                   invocations>>

\* mutant: the mutex is re-entrant, the nested call goes through and the
\* callback returns
RelockSubscribers_Reentrant(t) ==
    /\ thr[t].pc = "in_callback"
    /\ cb[t].op \in {"subscribe", "add_violation_notify"}
    /\ subscribers_lock = t
    /\ thr' = [thr EXCEPT ![t].pc = "notifying"]
    /\ cb' = [cb EXCEPT ![t] = [i |-> @.i + 1, op |-> "none"]]
    /\ UNCHANGED <<hostVars, builderVars, matcherVars, managerVars, connVars, last,
                   violations, history, subscribers, cleared_upto,
                   violations_lock, subscribers_lock, invocations>>

\* self.subscribers.lock() on the thread that holds the mutex. std::sync::Mutex
\* leaves the outcome open: the call does not return, it deadlocks or panics.
\* A panic unwinds through the callback and add_violation, whose guard is
\* dropped, leaving the mutex poisoned.
RelockSubscribers(t) ==
    \E outcome \in {"deadlock", "panic"} :
        /\ thr[t].pc = "in_callback"
        /\ cb[t].op \in {"subscribe", "add_violation_notify"}
        /\ subscribers_lock = t
        /\ IF outcome = "deadlock"
           THEN /\ thr' = [thr EXCEPT ![t].pc = "blocked"]
                /\ UNCHANGED subscribers_lock
           ELSE /\ thr' = [thr EXCEPT ![t].pc = "panicked"]
                /\ subscribers_lock' = 0
        /\ UNCHANGED <<hostVars, builderVars, matcherVars, managerVars, connVars, last,
                       violations, history, subscribers, cleared_upto,
                       violations_lock, cb, invocations>>

\* lock().unwrap() on the poisoned subscribers mutex, in the second block of
\* add_violation or in subscribe: the thread panics
PoisonedLock(t) ==
    /\ Poisoned
    /\ subscribers_lock = 0
    /\ \/ thr[t].pc = "add_notify"
       \/ (t \in Callers /\ thr[t].pc = "idle")
    /\ thr' = [thr EXCEPT ![t].pc = "panicked"]
    /\ UNCHANGED <<hostVars, builderVars, lockVars, matcherVars, managerVars, connVars,
                   last, violations, history, subscribers, cleared_upto>>

ReentrantNext ==
    \E t \in Threads :
        \/ AddEnter(t)
        \/ PushLock(t)
        \/ PushUnlock(t)
        \/ (~Poisoned /\ NotifyLock(t))
        \/ CallbackEnter(t)
        \/ CallbackEnterReentrant(t)
        \/ (cb[t].op \in CallbackOps /\ CallbackReenter(t))
        \/ NestedPush(t)
        \/ RelockSubscribers(t)
        \/ NotifyUnlock(t)
        \/ (~Poisoned /\ SubscribeLocked(t))
        \/ PoisonedLock(t)

SpecReentrant == StoreInit /\ [][ReentrantNext]_vars

\* the thread is inside the notification loop of add_violation
Notifying(t) == thr[t].pc \in {"notifying", "in_callback", "blocked"}
\* the callback running on the thread has called subscribe() or
\* add_violation() on the store
Reentered(t) == thr[t].pc = "in_callback" /\ cb[t].op \in ReentrantOps \cup {"add_violation_notify"}

\* C37. Subscriber re-entrancy: the subscribers mutex is held by the calling
\* thread for the whole notification loop; a callback that calls subscribe()
\* or add_violation() on the same store never returns from that call (the
\* thread stays blocked, or panics where the mutex detects the relock), the
\* loop goes no further and the nested subscribe registers nothing; and while
\* one thread's notification is running no other thread registers a
\* subscriber or starts its own notification.
C37_SubscriberReentrancy ==
    /\ [](\A t \in Threads : Notifying(t) => subscribers_lock = t)
    /\ [][\A t \in Threads :
            /\ Reentered(t) =>
                  /\ thr'[t].pc \in {"in_callback", "blocked", "panicked"}
                  /\ cb'[t].i = cb[t].i
                  /\ Len(subscribers') = Len(subscribers)
            /\ thr[t].pc \in {"blocked", "panicked"} =>
                  (thr'[t].pc = thr[t].pc /\ cb'[t] = cb[t])
            /\ Notifying(t) =>
                  /\ Len(subscribers') = Len(subscribers)
                  /\ \A u \in Threads \ {t} : ~Notifying(u)'
                  /\ subscribers_lock' \in {t, 0}]_vars

\* the observer thread is blocked for good inside a callback that called
\* add_violation (whose push went through), while the owner of the manager
\* has a record waiting for the subscribers mutex
C37_Witness ==
    /\ thr[2].pc = "blocked" /\ cb[2].op = "add_violation_notify"
    /\ subscribers_lock = 2
    /\ thr[1].pc = "add_notify"
    /\ Len(history) = 3

\* ===========================================================================
\* The manager and its observers on macOS
\* ===========================================================================
\* a macOS manager without container configuration; the OS is about to emit
\* a log of two lines
MonitorsInit ==
    /\ MatcherIdle
    /\ BuilderIdle
    /\ ExecIdle /\ FilesIdle
    /\ ManagerNew([network |-> [allowed_domains |-> <<>>, denied_domains |-> <<>>],
                   docker |-> <<>>], "macos")
    /\ oslog \in {<<l, m>> : l \in SampleLines, m \in SampleLines}
    /\ written = 0
    /\ monitors = <<>>

MonitorsNext ==
    \/ Initialize
    \/ Reset
    \/ Subscribe(1)
    \/ Clear(1)
    \/ LogWrite
    \/ ObserverRead

SpecMonitors == MonitorsInit /\ [][MonitorsNext]_vars

\* the lines containing "deny" among the first n lines of the OS log
DenyLinesUpTo(n) == SelectSeq(SubSeq(oslog, 1, n), HasDeny)

\* C38. One observer per store: whatever initialize() and reset() calls were
\* made, at most one observer thread is running for the manager's store, no
\* denial line of the OS log is recorded more than once, and no subscriber is
\* notified more than once for a line.
C38_OneObserver ==
    /\ Len(monitors) <= 1
    /\ Len(history) <= Len(DenyLinesUpTo(written))
    /\ \A i \in 1..Len(subscribers) :
          Len(subscribers[i]) <= Len(DenyLinesUpTo(written))

\* ===========================================================================
\* C39. reset() and initialize() leave the Violation Store's contents
\* unchanged: the log and the subscriber list are the same after the call as
\* before it, and the log gets shorter only by a clear() on the store.
C39_ManagerLeavesStore ==
    /\ [][(Initialize \/ Reset) =>
             (violations' = violations /\ subscribers' = subscribers)]_vars
    /\ [][Len(violations') < Len(violations) => (Clear(1) /\ violations' = <<>>)]_vars

\* a reset() made while the log holds a record that a subscriber was
\* notified of
C39_Witness ==
    /\ last.op = "reset"
    /\ violations # <<>>
    /\ Len(subscribers) = 1 /\ subscribers[1] # <<>>
    /\ Len(monitors) = 1

\* ===========================================================================
\* Wrapped macOS invocations and the profile file they name
\* (src/sandbox/macos.rs 107-126)
\* ===========================================================================
\* wrapped invocations a caller holds or has run
MaxPending == 1

\* the caller of wrap_command keeps the command line it was returned, to run
\* it later
HoldWrapped ==
    /\ built.res = "Ok" /\ built.self.kind = "macos"
    /\ Len(pending) + Len(ran) < MaxPending
    /\ pending' = Append(pending, [generated |-> built.profile])
    /\ built' = NoBuilt
    /\ UNCHANGED <<logVars, execVars, profile_file, ran, sandbox, disk, lockVars,
                   matcherVars, storeVars, managerVars, connVars, last>>

\* the oldest held command line is run: sandbox-exec -f <path> reads the
\* profile file as it is now
RunWrapped ==
    /\ pending # <<>>
    /\ IsSome(profile_file)
    /\ ran' = Append(ran, [generated |-> Head(pending).generated,
                           used |-> Unwrap(profile_file)])
    /\ pending' = Tail(pending)
    /\ UNCHANGED <<logVars, execVars, profile_file, builderVars, lockVars,
                   matcherVars, storeVars, managerVars, connVars, last>>

ProfileFileNext == BuilderNext \/ HoldWrapped \/ RunWrapped

SpecProfileFile == BuilderInit /\ [][ProfileFileNext]_vars

\* C40. macOS profile file isolation: every wrapped invocation runs under the
\* profile that was generated by the wrap_command call that returned it,
\* whatever other wrap_command calls the process made in between.
C40_ProfileFileIsolation ==
    \A k \in 1..Len(ran) : ran[k].used = ran[k].generated

====
